---- MODULE Spec2Model ----
(***************************************************************************)
(* State-machine model of the IronCoder gesture pipeline:                  *)
(*   - ClutchDetector           (src/src/clutch_detector.py)               *)
(*   - HybridGestureDetector    (src/src/hybrid_gesture_detector.py)       *)
(*   - the two frame loops      (src/main.py, src/ws_server.py)            *)
(*   - GeminiGestureDetector    (src/src/gemini_gesture_detector.py)       *)
(*   - ActionHandler            (src/src/action_handler.py)                *)
(*   - ConfigManager            (src/src/config_manager.py)                *)
(*   - AudioHandler             (src/src/audio_handler.py)                 *)
(*                                                                         *)
(* Python None is the string "null"; the gesture name 'none' is "none".    *)
(* Template scores are integers in percent, the hand-tracking confidence   *)
(* is in percent, and every quality-adjusted confidence is an integer in   *)
(* units of 1/ConfUnit, so that score * (0.9 + 0.1 * hand_confidence) is   *)
(* exact.  Time is in milliseconds.                                        *)
(***************************************************************************)
EXTENDS Integers, Sequences, FiniteSets, TLC

VARIABLES
    \* ClutchDetector
    require_stable_frames, detection_history, is_engaged,
    \* history variable: the number of closed-fist updates in a row up to
    \* now since the window was last empty (counted up to
    \* require_stable_frames), and is_engaged as the last call found it
    closed_run, was_engaged,
    \* HybridGestureDetector
    gemini_detector, use_gemini_fallback, gesture_histories,
    current_gesture, current_confidence, last_trigger_time,
    last_triggered_gesture,
    \* wall clock (the last value time.time() * 1000 returned)
    clock,
    \* what the last call did: its name, its return value, and the candidate
    \* it asked the verifier about with the verifier's answer
    op, ret, verifier,
    \* history variables: the last trigger any update returned, what has
    \* happened since it was returned, and a snapshot of both and of the
    \* trigger state taken as the last call began
    last_ret, since, before,
    \* history variable: the winner and adjusted confidence update computed
    \* for the last frame, with the number of hand-present updates in a row
    \* up to now that had this winner (counted up to DEFAULT_STABILITY_FRAMES)
    \* and whether all of them were at or above the high threshold
    seen,
    \* the frame loops (main.py, ws_server.py): which loop runs, the settings
    \* panel, the previous frame's current gesture, AudioHandler.recording
    loop, settings_visible, previous_gesture, recording,
    \* what the last frame did, and (history variable) the detector updates
    \* made since the detector was last reset
    frame, since_reset,
    \* the frame thread inside HybridGestureDetector.update: whether it is
    \* waiting in verify_gesture_quick, the frame it is evaluating, and
    \* (history) when the last two verifier calls were issued
    call,
    \* GeminiGestureDetector with the worker threads update has started
    gemini,
    \* ConfigManager.config['gestures'] and what the last
    \* execute_gesture_action call did
    handler,
    \* AudioHandler: its flags, the recorder thread, the audio buffered and
    \* the texts queued, and where the frame thread is inside stop_recording
    audio,
    \* CommandGestureRecognizer: the pose last scored, what the last call
    \* returned, and the recognizer's own (legacy) trigger state
    recognizer,
    \* the process's HybridGestureDetector objects with the class-level
    \* DEFAULT_GESTURE_CONFIG they were built from
    instances

clutchVars == <<require_stable_frames, detection_history, is_engaged,
                closed_run, was_engaged>>
detectorVars == <<gemini_detector, use_gemini_fallback, gesture_histories,
                  current_gesture, current_confidence, last_trigger_time,
                  last_triggered_gesture, ret, verifier,
                  last_ret, since, before, seen>>
hybridVars == <<detectorVars, clock>>
frameVars == <<loop, settings_visible, previous_gesture, recording, frame,
               since_reset>>
extraVars == <<recognizer, instances>>
sideVars == <<call, gemini, handler, audio, extraVars>>
vars == <<clutchVars, hybridVars, frameVars, sideVars, op>>

Null == "null"

(***************************************************************************)
(* Bounds of the model.                                                    *)
(***************************************************************************)
MaxStableFrames == 5
StartClock == 1000
ClockSpan == 750

MaxClock == StartClock + ClockSpan

(***************************************************************************)
(* collections.deque(maxlen = n).append                                    *)
(***************************************************************************)
DequeAppend(d, x, maxlen) ==
    IF maxlen = 0 THEN <<>>
    ELSE IF Len(d) >= maxlen THEN Append(Tail(d), x)
    ELSE Append(d, x)

RECURSIVE SumSeq(_)
SumSeq(s) == IF s = <<>> THEN 0 ELSE Head(s) + SumSeq(Tail(s))

(***************************************************************************)
(* ClutchDetector                                                          *)
(***************************************************************************)
\* Clutch-hand inputs: no hand, or the y coordinates of the landmarks that
\* is_fist_closed reads (tips 4, 8, 12, 16, 20 and joints 3, 6, 10, 14, 18).
HandY(tip, joint, thumb_tip, thumb_ip) ==
    [i \in 0..20 |->
        IF i \in {8, 12, 16, 20} THEN tip
        ELSE IF i \in {6, 10, 14, 18} THEN joint
        ELSE IF i = 4 THEN thumb_tip
        ELSE IF i = 3 THEN thumb_ip
        ELSE 50]

\* hand_data is None
NoHand == [present |-> FALSE]

FistHand == [present |-> TRUE, landmarks |-> HandY(60, 50, 55, 50)]
OpenHand == [present |-> TRUE, landmarks |-> HandY(20, 40, 30, 45)]
ThumbOutHand == [present |-> TRUE, landmarks |-> HandY(60, 50, 45, 50)]
HalfCurledHand ==
    [present |-> TRUE,
     landmarks |-> [HandY(60, 50, 55, 50) EXCEPT ![20] = 40]]

ClutchHands == {NoHand, FistHand, OpenHand, ThumbOutHand, HalfCurledHand}

is_fist_closed(hand_data) ==
    IF ~hand_data.present THEN FALSE
    ELSE LET landmarks == hand_data.landmarks
             fingers_curled == <<landmarks[8] > landmarks[6],
                                 landmarks[12] > landmarks[10],
                                 landmarks[16] > landmarks[14],
                                 landmarks[20] > landmarks[18]>>
             thumb_tucked == landmarks[4] > landmarks[3]
         IN  (\A i \in 1..4 : fingers_curled[i]) /\ thumb_tucked

AllTrue(history) == \A i \in 1..Len(history) : history[i]

CountTrue(history) == Cardinality({i \in 1..Len(history) : history[i]})

Min(a, b) == IF a <= b THEN a ELSE b

ClutchEngagedAfter_NoFullCheck(history, engaged_before) == AllTrue(history)

ClutchEngagedAfter_Majority(history, engaged_before) ==
    IF Len(history) = require_stable_frames
    THEN 2 * CountTrue(history) > Len(history)
    ELSE engaged_before

\* The window after update's append.
ClutchHistoryAfter(history, fist_closed) ==
    DequeAppend(history, fist_closed, require_stable_frames)

\* is_engaged after update: recomputed only when the window is full.
ClutchEngagedAfter(history, engaged_before) ==
    IF Len(history) = require_stable_frames
    THEN AllTrue(history)
    ELSE engaged_before

\* update: the detector's fields after it; is_engaged is its return value.
ClutchAfterUpdate(hand_data) ==
    LET fist_closed == is_fist_closed(hand_data)
        h == ClutchHistoryAfter(detection_history, fist_closed)
    IN  [detection_history |-> h,
         is_engaged |-> ClutchEngagedAfter(h, is_engaged),
         closed_run |-> IF fist_closed
                        THEN Min(closed_run + 1, require_stable_frames)
                        ELSE 0]

ClutchAfterReset ==
    [detection_history |-> <<>>, is_engaged |-> FALSE, closed_run |-> 0]

ClutchBecomes(c) ==
    /\ detection_history' = c.detection_history
    /\ is_engaged' = c.is_engaged
    /\ closed_run' = c.closed_run
    /\ was_engaged' = is_engaged
    /\ UNCHANGED require_stable_frames

ClutchUpdateEffect(hand_data) == ClutchBecomes(ClutchAfterUpdate(hand_data))

ClutchResetEffect == ClutchBecomes(ClutchAfterReset)

\* clutch.require_stable_frames as both frame loops default it.
DEFAULT_REQUIRE_STABLE_FRAMES == 5

ClutchInit ==
    /\ require_stable_frames \in 1..MaxStableFrames
    /\ detection_history = <<>>
    /\ is_engaged = FALSE
    /\ was_engaged = FALSE
    /\ closed_run = 0

(***************************************************************************)
(* CommandGestureRecognizer.recognize_with_confidence                      *)
(***************************************************************************)
\* The keys of the scores dict, in its insertion order.
TemplateOrder ==
    <<"open_palm", "peace_sign", "thumbs_up", "thumbs_down", "pointing",
      "ok_sign", "rock_sign", "shaka", "three_fingers", "four_fingers">>

Templates == {TemplateOrder[i] : i \in 1..Len(TemplateOrder)}

MIN_RECOGNIZE_CONFIDENCE == 40

recognize_with_confidence_NoFloor(scores) ==
    LET best_gesture ==
            CHOOSE t \in Templates : \A u \in Templates : scores[u] <= scores[t]
    IN  <<best_gesture, scores[best_gesture]>>

\* max(scores, key=scores.get): the first key, in insertion order, that
\* holds the maximum; below the floor the result is ('none', 0).
recognize_with_confidence(scores) ==
    LET best_index ==
            CHOOSE i \in 1..Len(TemplateOrder) :
                /\ \A j \in 1..Len(TemplateOrder) :
                       scores[TemplateOrder[j]] <= scores[TemplateOrder[i]]
                /\ \A j \in 1..(i - 1) :
                       scores[TemplateOrder[j]] < scores[TemplateOrder[i]]
        best_gesture == TemplateOrder[best_index]
        best_confidence == scores[best_gesture]
    IN  IF best_confidence < MIN_RECOGNIZE_CONFIDENCE
        THEN <<"none", 0>>
        ELSE <<best_gesture, best_confidence>>

(***************************************************************************)
(* CommandGestureRecognizer: the geometry predicates and the per-template  *)
(* confidence functions.  Landmark coordinates are integers in units of    *)
(* 0.01 of the frame; y grows downwards.  Landmark ids: wrist 0; thumb     *)
(* mcp 2, ip 3, tip 4; index 5/6/8, middle 9/10/12, ring 13/14/16 and      *)
(* pinky 17/18/20 (mcp/pip/tip).                                           *)
(***************************************************************************)
Abs(n) == IF n < 0 THEN -n ELSE n

\* An optional joint id is a sequence: <<>> is mcp_id=None.
is_finger_extended(landmarks, tip_id, pip_id, mcp_id) ==
    LET tip == landmarks[tip_id]
        pip == landmarks[pip_id]
        is_extended == tip.y < pip.y
    IN  IF mcp_id # <<>>
        THEN is_extended /\ tip.y < landmarks[mcp_id[1]].y
        ELSE is_extended

\* The recognizer's own fields (__init__): no method modelled here writes
\* them.
RecognizerFields ==
    [gesture_history |-> <<>>, current_gesture |-> "none",
     last_triggered_gesture |-> Null, last_trigger_time |-> 0]

CallIsFingerExtended_RecordsHistory(self, landmarks, tip_id, pip_id, mcp_id) ==
    LET is_extended == is_finger_extended(landmarks, tip_id, pip_id, mcp_id)
    IN  [ret |-> is_extended,
         self |-> [self EXCEPT !.gesture_history =
                      Append(@, IF is_extended THEN "up" ELSE "down")],
         landmarks |-> landmarks]

\* One call of self.is_finger_extended(...): what it returns and what it
\* leaves behind in the recognizer and in the landmark list.
CallIsFingerExtended(self, landmarks, tip_id, pip_id, mcp_id) ==
    [ret |-> is_finger_extended(landmarks, tip_id, pip_id, mcp_id),
     self |-> self,
     landmarks |-> landmarks]

\* thumb_extended of detect_open_palm / open_palm_confidence
ThumbOutward(landmarks) ==
    Abs(landmarks[4].x - landmarks[0].x) > Abs(landmarks[2].x - landmarks[0].x)

FingerTips(landmarks) == {landmarks[i] : i \in {8, 12, 16, 20}}

MaxOf(S) == CHOOSE n \in S : \A m \in S : m <= n
MinOf(S) == CHOOSE n \in S : \A m \in S : n <= m

\* The square of what the function returns (the callers compare it with
\* the squares of their thresholds).
_calculate_fingertip_spread(landmarks) ==
    LET xs == {t.x : t \in FingerTips(landmarks)}
        ys == {t.y : t \in FingerTips(landmarks)}
        dx == MaxOf(xs) - MinOf(xs)
        dy == MaxOf(ys) - MinOf(ys)
    IN  dx * dx + dy * dy

_calculate_fingertip_height_variance(landmarks) ==
    LET ys == {t.y : t \in FingerTips(landmarks)}
    IN  MaxOf(ys) - MinOf(ys)

\* The four fingers and the thumb of the open palm tests, as extended or not.
OpenPalmFingers(landmarks) ==
    <<is_finger_extended(landmarks, 8, 6, <<5>>),
      is_finger_extended(landmarks, 12, 10, <<9>>),
      is_finger_extended(landmarks, 16, 14, <<13>>),
      is_finger_extended(landmarks, 20, 18, <<17>>),
      ThumbOutward(landmarks)>>

detect_open_palm(landmarks) ==
    \A i \in 1..5 : OpenPalmFingers(landmarks)[i]

open_palm_confidence(landmarks) ==
    LET fingers_extended == OpenPalmFingers(landmarks)
        count == Cardinality({i \in 1..5 : fingers_extended[i]})
        base == IF count = 5 THEN 50 ELSE 30
        spread == _calculate_fingertip_spread(landmarks)
        height_var == _calculate_fingertip_height_variance(landmarks)
        thumb_spread == Abs(landmarks[4].x - landmarks[0].x)
                        - Abs(landmarks[2].x - landmarks[0].x)
        confidence ==
            base
            + (IF spread > 20 * 20 THEN 15
               ELSE IF spread > 12 * 12 THEN 8 ELSE 0)
            + (IF height_var < 6 THEN 15
               ELSE IF height_var < 12 THEN 8 ELSE 0)
            + (IF thumb_spread > 8 THEN 10
               ELSE IF thumb_spread > 4 THEN 5 ELSE 0)
    IN  IF count >= 4 THEN Min(confidence, 100) ELSE 0

\* index and middle up, ring and pinky curled, a V between the two tips
PeaceBase(landmarks) ==
    /\ is_finger_extended(landmarks, 8, 6, <<5>>)
    /\ is_finger_extended(landmarks, 12, 10, <<9>>)
    /\ landmarks[16].y > landmarks[14].y
    /\ landmarks[20].y > landmarks[18].y
    /\ Abs(landmarks[8].x - landmarks[12].x) > 3

PeaceThumbTucked(landmarks) == landmarks[4].y >= landmarks[3].y

detect_peace_sign(landmarks) ==
    PeaceBase(landmarks) /\ PeaceThumbTucked(landmarks)

\* The bonus for the angle at the index knuckle between the two tips.
\* lo <= angle <= hi, for angles below 90 degrees, is
\* cos(hi)^2 <= cos(angle)^2 <= cos(lo)^2; the squared cosines are in
\* thousandths: cos^2 of 10, 15, 60, 75 degrees = 0.970, 0.933, 0.250,
\* 0.067.
PeaceAngleBonus(landmarks) ==
    LET v1 == [x |-> landmarks[8].x - landmarks[5].x,
               y |-> landmarks[8].y - landmarks[5].y]
        v2 == [x |-> landmarks[12].x - landmarks[5].x,
               y |-> landmarks[12].y - landmarks[5].y]
        mag1 == v1.x * v1.x + v1.y * v1.y
        mag2 == v2.x * v2.x + v2.y * v2.y
        dot == v1.x * v2.x + v1.y * v2.y
        cos2 == 1000 * dot * dot
    IN  IF mag1 = 0 \/ mag2 = 0 \/ dot < 0 THEN 0
        ELSE IF 250 * mag1 * mag2 <= cos2 /\ cos2 <= 933 * mag1 * mag2
        THEN 15
        ELSE IF 67 * mag1 * mag2 <= cos2 /\ cos2 <= 970 * mag1 * mag2
        THEN 8
        ELSE 0

peace_sign_confidence(landmarks) ==
    LET ring_curl == landmarks[16].y - landmarks[14].y
        pinky_curl == landmarks[20].y - landmarks[18].y
        confidence ==
            50
            + (IF PeaceThumbTucked(landmarks) THEN 15 ELSE 0)
            + PeaceAngleBonus(landmarks)
            + (IF ring_curl > 3 /\ pinky_curl > 3 THEN 10 ELSE 0)
    IN  IF PeaceBase(landmarks) THEN Min(confidence, 100) ELSE 0

\* index and pinky up, middle and ring curled
RockBase(landmarks) ==
    /\ is_finger_extended(landmarks, 8, 6, <<5>>)
    /\ is_finger_extended(landmarks, 20, 18, <<17>>)
    /\ landmarks[12].y > landmarks[10].y
    /\ landmarks[16].y > landmarks[14].y

\* thumb_tucked, with the margin the caller uses (0.06 or 0.04)
RockThumbTucked(landmarks, margin) ==
    Abs(landmarks[4].x - landmarks[0].x)
        < Abs(landmarks[2].x - landmarks[0].x) + margin

detect_rock_sign(landmarks) ==
    /\ RockBase(landmarks)
    /\ RockThumbTucked(landmarks, 6)
    /\ Abs(landmarks[8].x - landmarks[20].x) > 7

rock_sign_confidence(landmarks) ==
    LET spread == Abs(landmarks[8].x - landmarks[20].x)
        middle_curl == landmarks[12].y - landmarks[10].y
        ring_curl == landmarks[16].y - landmarks[14].y
        confidence ==
            50
            + (IF spread > 12 THEN 15 ELSE IF spread > 8 THEN 8 ELSE 0)
            + (IF middle_curl > 4 /\ ring_curl > 4 THEN 15
               ELSE IF middle_curl > 2 /\ ring_curl > 2 THEN 8 ELSE 0)
            + (IF RockThumbTucked(landmarks, 4) THEN 10 ELSE 0)
    IN  IF RockBase(landmarks) THEN Min(confidence, 100) ELSE 0

\* The seven other templates are scored from a reading of the pose: whether
\* the function's base test passed and which tier of each of its bonuses
\* the pose reached.  BonusTiers lists, per template, the amounts each bonus
\* can add, in the order the function adds them.
OtherTemplates ==
    {"thumbs_up", "thumbs_down", "pointing", "ok_sign", "shaka",
     "three_fingers", "four_fingers"}

BonusTiers ==
    [thumbs_up |-> <<{0, 10, 20}, {0, 8, 15}>>,
     thumbs_down |-> <<{0, 10, 20}, {0, 8, 15}, {0, 5, 10}>>,
     pointing |-> <<{0, 15}, {0, 8, 15}, {0, 10}>>,
     ok_sign |-> <<{0, 10, 20}, {0, 8, 15}>>,
     shaka |-> <<{0, 8, 15}, {0, 8, 15}, {0, 10}>>,
     three_fingers |-> <<{0, 10, 20}, {0, 8, 15}>>,
     four_fingers |-> <<{0, 10, 20}, {0, 8, 15}>>]

NoReading == [template |-> "none", bonus |-> <<>>]

\* The readings in which template's base test passed.
ReadingsOf(template) ==
    LET tiers == BonusTiers[template]
    IN  {[template |-> template, bonus |-> b] :
            b \in {s \in [1..Len(tiers) -> {0, 5, 8, 10, 15, 20}] :
                      \A i \in 1..Len(tiers) : s[i] \in tiers[i]}}

Readings == {NoReading} \cup UNION {ReadingsOf(t) : t \in OtherTemplates}

\* <template>_confidence for the seven: 0.50 for the base test, the bonuses
\* on top, min(confidence, 1.0).
other_confidence(template, reading) ==
    IF reading.template # template THEN 0
    ELSE Min(50 + SumSeq(reading.bonus), 100)

\* The scores dict recognize_with_confidence builds.
ScoresOf(landmarks, reading) ==
    [t \in Templates |->
        IF t = "open_palm" THEN open_palm_confidence(landmarks)
        ELSE IF t = "peace_sign" THEN peace_sign_confidence(landmarks)
        ELSE IF t = "rock_sign" THEN rock_sign_confidence(landmarks)
        ELSE other_confidence(t, reading)]

\* ----- poses -----
\* A finger is up, low (extended, its tip not as high), bent (its tip just
\* below the pip joint) or curled; the tips are close together, a little
\* apart or fanned out; the thumb is tucked across the palm, to the side or
\* stretched out.
FingerShapes == {"up", "low", "bent", "curled"}
TipSpreads == {"narrow", "mid", "wide"}
ThumbShapes == {"tucked", "side", "out"}

TipX ==
    [narrow |-> <<45, 47, 52, 51>>,
     mid |-> <<39, 46, 47, 47>>,
     wide |-> <<36, 46, 56, 66>>]

TipY == [up |-> 30, low |-> 38, bent |-> 53, curled |-> 58]

ThumbTip ==
    [tucked |-> [x |-> 46, y |-> 72],
     side |-> [x |-> 35, y |-> 62],
     out |-> [x |-> 28, y |-> 60]]

ThumbIp ==
    [tucked |-> [x |-> 42, y |-> 70],
     side |-> [x |-> 38, y |-> 68],
     out |-> [x |-> 34, y |-> 66]]

\* fingers is a sequence of four shapes: index, middle, ring, pinky.
Skeleton(fingers, spread, thumb) ==
    [i \in 0..20 |->
        IF i = 0 THEN [x |-> 50, y |-> 90]
        ELSE IF i = 1 THEN [x |-> 44, y |-> 82]
        ELSE IF i = 2 THEN [x |-> 40, y |-> 75]
        ELSE IF i = 3 THEN ThumbIp[thumb]
        ELSE IF i = 4 THEN ThumbTip[thumb]
        ELSE LET finger == (i - 1) \div 4
                 joint == (i - 1) % 4
             IN  IF joint = 0 THEN [x |-> 32 + 8 * finger, y |-> 60]
                 ELSE IF joint = 1 THEN [x |-> 32 + 8 * finger, y |-> 50]
                 ELSE IF joint = 2 THEN [x |-> 32 + 8 * finger, y |-> 44]
                 ELSE [x |-> TipX[spread][finger],
                       y |-> TipY[fingers[finger]]]]

Skeletons ==
    {Skeleton(<<i, m, r, p>>, spread, thumb) :
        i \in {"up", "curled"}, m \in FingerShapes, r \in FingerShapes,
        p \in FingerShapes, spread \in TipSpreads, thumb \in ThumbShapes}

\* The joints each finger is tested with: tip, pip, mcp.
FingerJoints == {<<8, 6, 5>>, <<12, 10, 9>>, <<16, 14, 13>>, <<20, 18, 17>>}

NoScores == [t \in Templates |-> 0]

RecognizerOn(landmarks) ==
    [self |-> RecognizerFields, given |-> landmarks,
     landmarks |-> landmarks, call |-> "none",
     joints |-> <<>>, first |-> FALSE, second |-> FALSE,
     reading |-> NoReading, scores |-> NoScores, ret |-> <<"none", 0>>,
     detected |-> {}]

RecognizerInit ==
    RecognizerOn(Skeleton(<<"up", "up", "up", "up">>, "wide", "out"))

(***************************************************************************)
(* HybridGestureDetector                                                   *)
(***************************************************************************)
ConfUnit == 100000

DEFAULT_HIGH_CONFIDENCE == 80000
DEFAULT_MEDIUM_CONFIDENCE == 60000
DEFAULT_LOW_CONFIDENCE == 40000
OPEN_PALM_SKIP_GEMINI_ABOVE == 75000
OPEN_PALM_STABILITY_FRAMES == 2
DEFAULT_STABILITY_FRAMES == 3
NONE_HISTORY_MAXLEN == 3
cooldown_ms == 500

\* DEFAULT_GESTURE_CONFIG, in insertion order.
ConfiguredOrder ==
    <<"open_palm", "peace_sign", "thumbs_up", "thumbs_down", "pointing">>

Configured == {ConfiguredOrder[i] : i \in 1..Len(ConfiguredOrder)}

gesture_config ==
    [g \in Configured |->
        IF g = "open_palm"
        THEN [stability_frames |-> OPEN_PALM_STABILITY_FRAMES,
              skip_gemini_above |-> OPEN_PALM_SKIP_GEMINI_ABOVE]
        ELSE [stability_frames |-> DEFAULT_STABILITY_FRAMES,
              skip_gemini_above |-> DEFAULT_HIGH_CONFIDENCE]]

\* config.get('stability_frames', 3) and
\* config.get('skip_gemini_above', DEFAULT_HIGH_CONFIDENCE) of
\* gesture_config.get(gesture, {}).
StabilityFrames_AllFast(gesture) == OPEN_PALM_STABILITY_FRAMES

SkipThreshold_DefaultOnly(gesture) == DEFAULT_HIGH_CONFIDENCE

StabilityFrames(gesture) ==
    IF gesture \in DOMAIN gesture_config
    THEN gesture_config[gesture].stability_frames
    ELSE DEFAULT_STABILITY_FRAMES

SkipThreshold(gesture) ==
    IF gesture \in DOMAIN gesture_config
    THEN gesture_config[gesture].skip_gemini_above
    ELSE DEFAULT_HIGH_CONFIDENCE

\* The keys of gesture_histories, in insertion order, and each deque's maxlen.
HistoryOrder == ConfiguredOrder \o <<"none">>

HistoryKeys == {HistoryOrder[i] : i \in 1..Len(HistoryOrder)}

HistoryMaxLen(g) ==
    IF g = "none" THEN NONE_HISTORY_MAXLEN ELSE StabilityFrames(g)

EmptyHistories == [g \in HistoryKeys |-> <<>>]

\* confidence * (0.9 + 0.1 * hand_confidence), in units of 1/ConfUnit.
AdjustedConfidence(score, hand_confidence) == score * (900 + hand_confidence)

ClearsOthers_HighOnly(confidence) == confidence >= DEFAULT_HIGH_CONFIDENCE

ClearsOthers(confidence) == confidence >= DEFAULT_MEDIUM_CONFIDENCE

_update_history(histories, gesture, confidence) ==
    LET appended ==
            IF gesture \in DOMAIN histories
            THEN [histories EXCEPT
                    ![gesture] = DequeAppend(@, <<gesture, confidence>>,
                                             HistoryMaxLen(gesture))]
            ELSE histories
    IN  IF ClearsOthers(confidence)
        THEN [g \in DOMAIN appended |->
                IF g # gesture THEN <<>> ELSE appended[g]]
        ELSE appended

ConfSum(history) == SumSeq([i \in 1..Len(history) |-> history[i][2]])

IsStable(histories, g) ==
    /\ g # "none"
    /\ Len(histories[g]) >= StabilityFrames(g)
    /\ \A i \in 1..Len(histories[g]) : histories[g][i][1] = g

\* The first stable key in iteration order, with the sum and the number of
\* the confidences in its window (avg_conf = sum / n), or (None, 0.0).
_get_stable_gesture(histories) ==
    IF \E i \in 1..Len(HistoryOrder) : IsStable(histories, HistoryOrder[i])
    THEN LET first == CHOOSE i \in 1..Len(HistoryOrder) :
                         /\ IsStable(histories, HistoryOrder[i])
                         /\ \A j \in 1..(i - 1) :
                                ~IsStable(histories, HistoryOrder[j])
             g == HistoryOrder[first]
         IN  [gesture |-> g, sum |-> ConfSum(histories[g]),
              n |-> Len(histories[g])]
    ELSE [gesture |-> Null, sum |-> 0, n |-> 1]

\* avg_conf >= threshold, and avg_conf as reported (rounded down to a unit).
AvgAtLeast(stable, threshold) == stable.sum >= threshold * stable.n
AvgConf(stable) == stable.sum \div stable.n

OnCooldown_Never(current_time, last_time) == FALSE

SameAsLast_Never(gesture, last_gesture) == FALSE

\* _try_trigger's two checks.
OnCooldown(current_time, last_time) == current_time - last_time < cooldown_ms

SameAsLast(gesture, last_gesture) == gesture = last_gesture

TriggerAccepted(gesture, current_time, last_time, last_gesture) ==
    /\ ~OnCooldown(current_time, last_time)
    /\ ~SameAsLast(gesture, last_gesture)

\* The answers of GeminiGestureDetector.verify_gesture_quick: the model's
\* text starts with 'yes', it does not, or the call (or the encoding) fails.
VerifierAnswers == {"yes", "no", "error"}

verify_gesture_quick_FailOpen(answer) == answer # "no"

verify_gesture_quick(answer) == answer = "yes"

_verify_with_gemini_ErrorConfirms(answer) ==
    IF ~gemini_detector THEN FALSE ELSE answer \in {"yes", "error"}

_verify_with_gemini(answer) ==
    IF ~gemini_detector THEN FALSE ELSE verify_gesture_quick(answer)

Band_MediumNeedsVerifier(stable) ==
    IF stable.gesture = Null \/ stable.gesture = "none" THEN "nothing"
    ELSE IF AvgAtLeast(stable, SkipThreshold(stable.gesture)) THEN "high"
    ELSE IF AvgAtLeast(stable, DEFAULT_MEDIUM_CONFIDENCE)
            /\ use_gemini_fallback /\ gemini_detector THEN "verify"
    ELSE "low"

Band_LowThreshold(stable) ==
    IF stable.gesture = Null \/ stable.gesture = "none" THEN "nothing"
    ELSE IF AvgAtLeast(stable, SkipThreshold(stable.gesture)) THEN "high"
    ELSE IF AvgAtLeast(stable, DEFAULT_LOW_CONFIDENCE)
            /\ use_gemini_fallback /\ gemini_detector THEN "verify"
    ELSE IF AvgAtLeast(stable, DEFAULT_LOW_CONFIDENCE) THEN "medium"
    ELSE "low"

\* Which branch of update a stable candidate takes.
Band(stable) ==
    IF stable.gesture = Null \/ stable.gesture = "none" THEN "nothing"
    ELSE IF AvgAtLeast(stable, SkipThreshold(stable.gesture)) THEN "high"
    ELSE IF AvgAtLeast(stable, DEFAULT_MEDIUM_CONFIDENCE)
            /\ use_gemini_fallback /\ gemini_detector THEN "verify"
    ELSE IF AvgAtLeast(stable, DEFAULT_MEDIUM_CONFIDENCE) THEN "medium"
    ELSE "low"

VerifiedSource == "gemini"

\* Command-hand inputs: no hand, or the ten template scores of the pose (in
\* percent) and the hand-tracking confidence (in percent).
PoseOf(winner, score, hand_confidence) ==
    [present |-> TRUE,
     scores |-> [t \in Templates |-> IF t = winner THEN score ELSE 0],
     confidence |-> hand_confidence]

Poses ==
    {PoseOf("peace_sign", 35, 100), PoseOf("peace_sign", 65, 100),
     PoseOf("peace_sign", 85, 100), PoseOf("open_palm", 85, 0),
     PoseOf("ok_sign", 85, 100)}

CommandHands == {NoHand} \cup Poses

\* Clock readings: time.time() never runs backwards.
ClockSteps == {0, 250, 501}

\* update returned None; no update has returned a trigger yet
NoTrigger == [gesture |-> Null, confidence |-> 0, source |-> Null]
NoLastTrigger == [gesture |-> Null, time |-> 0]

NotAsked == [asked |-> Null, answer |-> "unasked"]

Snapshot ==
    [ret |-> last_ret, since |-> since,
     last_trigger_time |-> last_trigger_time,
     last_triggered_gesture |-> last_triggered_gesture]

NoEvents == [reset |-> FALSE, other_stable |-> FALSE, none_frame |-> FALSE]

NothingSeen ==
    [present |-> FALSE, gesture |-> Null, confidence |-> 0, n |-> 0,
     high |-> TRUE]

SeenAfter(gesture, confidence) ==
    LET continues == seen.present /\ seen.gesture = gesture
    IN  [present |-> TRUE, gesture |-> gesture, confidence |-> confidence,
         n |-> IF continues
               THEN Min(seen.n + 1, DEFAULT_STABILITY_FRAMES) ELSE 1,
         high |-> /\ confidence >= DEFAULT_HIGH_CONFIDENCE
                  /\ continues => seen.high]

HybridUpdateEffect(hand_data, current_time, answer) ==
    /\ before' = Snapshot
    /\ UNCHANGED <<gemini_detector, use_gemini_fallback>>
    /\ IF ~hand_data.present
       THEN /\ gesture_histories' = EmptyHistories
            /\ ret' = NoTrigger
            /\ verifier' = NotAsked
            /\ seen' = NothingSeen
            /\ UNCHANGED <<current_gesture, current_confidence,
                           last_trigger_time, last_triggered_gesture,
                           last_ret, since>>
       ELSE LET rec == recognize_with_confidence(hand_data.scores)
                gesture == rec[1]
                confidence == AdjustedConfidence(rec[2], hand_data.confidence)
                histories == _update_history(gesture_histories, gesture,
                                             confidence)
                stable == _get_stable_gesture(histories)
                band == Band(stable)
                asks == band = "verify"
                tries == \/ band \in {"high", "medium"}
                         \/ asks /\ _verify_with_gemini(answer)
                fires == /\ tries
                         /\ TriggerAccepted(stable.gesture, current_time,
                                            last_trigger_time,
                                            last_triggered_gesture)
                source == IF asks THEN VerifiedSource ELSE "local"
            IN  /\ gesture_histories' = histories
                /\ seen' = SeenAfter(gesture, confidence)
                /\ verifier' = IF asks
                               THEN [asked |-> stable.gesture,
                                     answer |-> answer]
                               ELSE NotAsked
                /\ IF fires
                   THEN /\ last_trigger_time' = current_time
                        /\ last_triggered_gesture' = stable.gesture
                        /\ current_gesture' = stable.gesture
                        /\ current_confidence' = AvgConf(stable)
                        /\ ret' = [gesture |-> stable.gesture,
                                   confidence |-> AvgConf(stable),
                                   source |-> source]
                        /\ last_ret' = [gesture |-> stable.gesture,
                                        time |-> current_time]
                        /\ since' = NoEvents
                   ELSE /\ ret' = NoTrigger
                        /\ UNCHANGED <<last_trigger_time,
                                       last_triggered_gesture, last_ret>>
                        /\ since' =
                             [since EXCEPT
                                !.other_stable =
                                    \/ @
                                    \/ /\ last_ret.gesture # Null
                                       /\ stable.gesture \notin {Null, "none"}
                                       /\ stable.gesture # last_ret.gesture,
                                !.none_frame = @ \/ gesture = "none"]
                        /\ IF tries
                           THEN UNCHANGED <<current_gesture,
                                            current_confidence>>
                           ELSE /\ current_gesture' =
                                     IF confidence >= DEFAULT_LOW_CONFIDENCE
                                     THEN gesture ELSE "none"
                                /\ current_confidence' = confidence

HybridResetEffect_KeepsLastTriggered ==
    /\ gesture_histories' = EmptyHistories
    /\ current_gesture' = Null
    /\ current_confidence' = 0
    /\ ret' = NoTrigger
    /\ verifier' = NotAsked
    /\ since' = [since EXCEPT !.reset = TRUE]
    /\ seen' = NothingSeen
    /\ before' = Snapshot
    /\ UNCHANGED <<gemini_detector, use_gemini_fallback, last_trigger_time,
                   last_triggered_gesture, last_ret>>

HybridResetEffect_ClearsTriggerTime ==
    /\ gesture_histories' = EmptyHistories
    /\ current_gesture' = Null
    /\ current_confidence' = 0
    /\ last_triggered_gesture' = Null
    /\ last_trigger_time' = 0
    /\ ret' = NoTrigger
    /\ verifier' = NotAsked
    /\ since' = [since EXCEPT !.reset = TRUE]
    /\ seen' = NothingSeen
    /\ before' = Snapshot
    /\ UNCHANGED <<gemini_detector, use_gemini_fallback, last_ret>>

HybridResetEffect ==
    /\ gesture_histories' = EmptyHistories
    /\ current_gesture' = Null
    /\ current_confidence' = 0
    /\ last_triggered_gesture' = Null
    /\ ret' = NoTrigger
    /\ verifier' = NotAsked
    /\ since' = [since EXCEPT !.reset = TRUE]
    /\ seen' = NothingSeen
    /\ before' = Snapshot
    /\ UNCHANGED <<gemini_detector, use_gemini_fallback, last_trigger_time,
                   last_ret>>

\* The detector as constructed: a verifier or none (gemini_detector=None is
\* the default), and use_gemini_fallback as passed (True is the default).
HybridInit ==
    /\ gemini_detector \in BOOLEAN
    /\ use_gemini_fallback \in BOOLEAN
    /\ gesture_histories = EmptyHistories
    /\ current_gesture = Null
    /\ current_confidence = 0
    /\ last_trigger_time = 0
    /\ last_triggered_gesture = Null
    /\ clock = StartClock
    /\ ret = NoTrigger
    /\ verifier = NotAsked
    /\ last_ret = NoLastTrigger
    /\ since = NoEvents
    /\ seen = NothingSeen
    /\ before = [ret |-> NoLastTrigger, since |-> NoEvents,
                 last_trigger_time |-> 0, last_triggered_gesture |-> Null]

(***************************************************************************)
(* State of the frame loops before the first frame.                        *)
(***************************************************************************)
NoFrame ==
    [left_present |-> FALSE, engaged |-> FALSE, updated |-> FALSE,
     triggered |-> Null, source |-> Null, dispatched |-> Null,
     started |-> FALSE, stopped |-> FALSE, engaged_run |-> 0]

NoUpdates == [n |-> 0, all_peace |-> TRUE]

FrameInit ==
    /\ settings_visible = FALSE
    /\ previous_gesture = Null
    /\ recording = FALSE
    /\ frame = NoFrame
    /\ since_reset = NoUpdates

(***************************************************************************)
(* State outside the three components above: the frame thread's verifier   *)
(* call, and GeminiGestureDetector with its worker threads.                *)
(***************************************************************************)
\* No verifier call yet: issued_at = 0 and gap = -1 stand for "none".
NoCall ==
    [state |-> "idle", hand_data |-> NoHand, issued_at |-> 0, gap |-> -1,
     failures |-> 0]

MaxWorkers == 2
Workers == 1..MaxWorkers

\* sample_interval = 0.5 s, in milliseconds
DEFAULT_SAMPLE_INTERVAL == 500
\* both frame loops construct the verifier with stability_frames = 1
GEMINI_STABILITY_FRAMES == 1

NoStep == [kind |-> "init", issued |-> FALSE, ret |-> Null]

GeminiInit ==
    [is_processing |-> FALSE, last_sample_time |-> 0,
     current_gesture |-> Null, gesture_history |-> <<>>,
     last_trigger_time |-> 0,
     \* where the frame thread is inside update, where each worker thread is
     \* inside _process_frame_async, and what the last step did
     update |-> "idle", workers |-> [w \in Workers |-> "unused"],
     last |-> NoStep]

(***************************************************************************)
(* ConfigManager's gesture table and ActionHandler.execute_gesture_action. *)
(* A keystroke call is write(text) or press(key); ok tells whether         *)
(* pyautogui carried it out or raised.                                     *)
(***************************************************************************)
DispatchGestures ==
    {"peace_sign", "thumbs_up", "thumbs_down", "pointing", "ok_sign"}

\* An entry of config['gestures'] is a dict with the keys 'command',
\* 'action' and 'description'; a key the dict does not have is Null here.
EmptyEntry == [command |-> Null, action |-> Null, description |-> Null]

Command(command, description) ==
    [command |-> command, action |-> Null, description |-> description]

SpecialAction(action, description) ==
    [command |-> Null, action |-> action, description |-> description]

DEFAULT_GESTURES ==
    [g \in DispatchGestures |->
        CASE g = "peace_sign" -> Command("start the dev server", "Start Server")
          [] g = "thumbs_up" -> Command("commit and push", "Commit & Push")
          [] g = "thumbs_down" -> SpecialAction("clear_input", "Clear Input")
          [] g = "pointing" -> Command("kill the running server", "Stop Server")
          [] g = "ok_sign" -> Command("/help", "Help")]

set_gesture_command_KeepsAction(config, gesture, command, description) ==
    LET current == IF gesture \in DOMAIN config THEN config[gesture]
                   ELSE EmptyEntry
        entry == [current EXCEPT !.command = command]
    IN  [g \in DOMAIN config \cup {gesture} |->
            IF g = gesture THEN entry ELSE config[g]]

\* "if description:" is false for None and for the empty string.
set_gesture_command(config, gesture, command, description) ==
    LET current == IF gesture \in DOMAIN config THEN config[gesture]
                   ELSE EmptyEntry
        entry == [current EXCEPT
                     !.action = Null,
                     !.command = command,
                     !.description = IF description \notin {Null, ""}
                                     THEN description ELSE @]
    IN  [g \in DOMAIN config \cup {gesture} |->
            IF g = gesture THEN entry ELSE config[g]]

reset_to_defaults(config) == DEFAULT_GESTURES

\* A value of the old file format: the action or command as a plain string.
OldFormat(value) == [old_format |-> value]

\* _ensure_defaults on the gestures section read from the file: missing
\* default gestures are added, string values become dicts, everything else
\* stays.
_ensure_defaults(gestures) ==
    [g \in DOMAIN gestures \cup DOMAIN DEFAULT_GESTURES |->
        IF g \notin DOMAIN DEFAULT_GESTURES THEN gestures[g]
        ELSE IF g \notin DOMAIN gestures THEN DEFAULT_GESTURES[g]
        ELSE IF "old_format" \in DOMAIN gestures[g]
        THEN LET current == gestures[g].old_format
             IN  IF current \in {"voice_dictation", "clear_input"}
                 THEN SpecialAction(current, DEFAULT_GESTURES[g].description)
                 ELSE Command(current, DEFAULT_GESTURES[g].description)
        ELSE gestures[g]]

\* load_config: the file's gestures section, then _ensure_defaults.
load_config(file) == _ensure_defaults(file)

Write(text) == [call |-> "write", arg |-> text]
Press(key) == [call |-> "press", arg |-> key]

\* The pyautogui calls of the four action methods, in order.
start_dev_server == <<Write("start the dev server"), Press("enter")>>
git_commit_push == <<Write("commit and push"), Press("enter")>>
send_escape_escape == <<Press("escape"), Press("escape")>>
stop_dev_server == <<Write("kill the running server"), Press("enter")>>

ActionGestures == {"peace_sign", "thumbs_up", "thumbs_down", "pointing"}

action_map ==
    [g \in ActionGestures |->
        CASE g = "peace_sign" ->
                 [steps |-> start_dev_server, name |-> "Start Dev Server"]
          [] g = "thumbs_up" ->
                 [steps |-> git_commit_push, name |-> "Commit & Push"]
          [] g = "thumbs_down" ->
                 [steps |-> send_escape_escape, name |-> "Input Cleared"]
          [] g = "pointing" ->
                 [steps |-> stop_dev_server, name |-> "Stop Dev Server"]]

Attempt(step, ok) == [call |-> step.call, arg |-> step.arg, ok |-> ok]

\* An action method: its calls run in order inside one try block; the call
\* numbered fault (0: none) raises, and the except clause returns False.
RunAction_ContinuesAfterFailure(steps, fault) ==
    [attempts |-> [i \in 1..Len(steps) |-> Attempt(steps[i], i # fault)],
     success |-> fault = 0]

RunAction(steps, fault) ==
    [attempts |->
        [i \in 1..(IF fault = 0 THEN Len(steps) ELSE fault) |->
            Attempt(steps[i], i # fault)],
     success |-> fault = 0]

NoResult == [present |-> FALSE, text |-> "", suffix |-> ""]

Result(text, suffix) == [present |-> TRUE, text |-> text, suffix |-> suffix]

FAILED == " (FAILED)"

execute_gesture_action(gesture, fault) ==
    IF gesture \in DOMAIN action_map
    THEN LET run == RunAction(action_map[gesture].steps, fault)
         IN  [attempts |-> run.attempts,
              ret |-> Result(action_map[gesture].name,
                             IF run.success THEN "" ELSE FAILED)]
    ELSE [attempts |-> <<>>, ret |-> NoResult]

Faults(gesture) ==
    IF gesture \in DOMAIN action_map
    THEN 0..Len(action_map[gesture].steps) ELSE {0}

HandlerInit ==
    [config |-> DEFAULT_GESTURES, gesture |-> Null, fault |-> 0,
     attempts |-> <<>>, ret |-> NoResult]

(***************************************************************************)
(* AudioHandler.  Audio is counted in units of half a second.              *)
(***************************************************************************)
MaxAudioUnits == 7
MaxQueued == 2

\* chunk_duration = 3.0 s
CHUNK_UNITS == 6
\* _process_remaining_buffer skips less than 0.5 s
MIN_REMAINING_UNITS == 1

AudioInit ==
    [recording |-> FALSE, should_stop |-> FALSE, record_thread |-> "none",
     old_thread |-> "none", audio_buffer |-> 0, text_queue |-> 0,
     caller |-> "idle"]


(***************************************************************************)
(* Several HybridGestureDetector objects in one process.  The per-gesture  *)
(* dicts are objects on a heap; DEFAULT_GESTURE_CONFIG and every           *)
(* detector's gesture_config map a gesture to the id of its dict.  The     *)
(* dicts of the class-level default have the gesture's name as their id.   *)
(***************************************************************************)
MaxDetectors == 2
MaxInstanceFrames == 3

\* DEFAULT_GESTURE_CONFIG: gesture -> id of its dict
DEFAULT_GESTURE_CONFIG == [g \in Configured |-> g]

\* dict.copy(): a new outer dict holding the same inner objects.
ShallowCopy(config) == [g \in DOMAIN config |-> config[g]]

\* The gesture_config argument: None, or one key of one gesture.
NoOverride == [gesture |-> Null, key |-> Null, value |-> 0]

Overrides ==
    {NoOverride,
     [gesture |-> "peace_sign", key |-> "stability_frames", value |-> 1],
     [gesture |-> "peace_sign", key |-> "stability_frames", value |-> 4],
     [gesture |-> "peace_sign", key |-> "skip_gemini_above", value |-> 60000],
     [gesture |-> "open_palm", key |-> "stability_frames", value |-> 3],
     [gesture |-> "ok_sign", key |-> "stability_frames", value |-> 1]}

\* self.gesture_config[gesture].update(config), for the gestures that are
\* keys of self.gesture_config: the dict the key refers to is changed in
\* place.
MergeOverride(heap, config, override) ==
    IF override.gesture \in DOMAIN config
    THEN LET id == config[override.gesture]
         IN  IF override.key = "stability_frames"
             THEN [heap EXCEPT ![id].stability_frames = override.value]
             ELSE [heap EXCEPT ![id].skip_gemini_above = override.value]
    ELSE heap

\* __init__: the object built, given the heap after the merge.
NewDetector(heap, override) ==
    LET config == ShallowCopy(DEFAULT_GESTURE_CONFIG)
    IN  [overridden |-> override # NoOverride,
         gesture_config |-> config,
         maxlen |-> [g \in DOMAIN config |-> heap[config[g]].stability_frames],
         peace_history |-> 0,
         frames |-> 0,
         first_trigger |-> 0]

\* update with a peace_sign pose at 0.85 and nothing triggered before: the
\* deque grows up to its maxlen, and the gesture is stable (and triggers)
\* once it holds stability_frames entries, read from the dict now.
DetectorAfterPeaceFrame(heap, detector) ==
    LET length == Min(detector.peace_history + 1,
                      detector.maxlen["peace_sign"])
        config == heap[detector.gesture_config["peace_sign"]]
        stable == length >= config.stability_frames
        frames == detector.frames + 1
    IN  [detector EXCEPT
            !.peace_history = length,
            !.frames = frames,
            !.first_trigger = IF @ = 0 /\ stable THEN frames ELSE @]

InstancesInit == [heap |-> gesture_config, detectors |-> <<>>]

BaseSideInit ==
    /\ call = NoCall
    /\ gemini = GeminiInit
    /\ handler = HandlerInit
    /\ audio = AudioInit

SideInit ==
    /\ BaseSideInit
    /\ recognizer = RecognizerInit
    /\ instances = InstancesInit

\* Everything but the recognizer and the detector objects at rest, with no
\* verifier configured.
IdleInit ==
    /\ HybridInit
    /\ gemini_detector = FALSE
    /\ use_gemini_fallback = FALSE
    /\ require_stable_frames = DEFAULT_REQUIRE_STABLE_FRAMES
    /\ detection_history = <<>>
    /\ is_engaged = FALSE
    /\ was_engaged = FALSE
    /\ closed_run = 0
    /\ FrameInit
    /\ BaseSideInit
    /\ loop = "main"
    /\ op = "init"

(***************************************************************************)
(* The clutch detector on its own: any sequence of update and reset.       *)
(***************************************************************************)
ClutchUpdate ==
    \E hand_data \in ClutchHands :
        /\ ClutchUpdateEffect(hand_data)
        /\ op' = IF is_fist_closed(hand_data) THEN "update_closed"
                 ELSE "update_open"
        /\ UNCHANGED <<hybridVars, frameVars, sideVars>>

ClutchReset ==
    /\ ClutchResetEffect
    /\ op' = "reset"
    /\ UNCHANGED <<hybridVars, frameVars, sideVars>>

InitClutch ==
    /\ ClutchInit /\ HybridInit /\ FrameInit /\ SideInit
    /\ loop = "main" /\ op = "init"

NextClutch == ClutchUpdate \/ ClutchReset

SpecClutch == InitClutch /\ [][NextClutch]_vars

(***************************************************************************)
(* The hybrid detector on its own: any sequence of update and reset calls  *)
(* under a non-decreasing clock.                                           *)
(***************************************************************************)
\* Whether update reaches _verify_with_gemini on this input; the answer is
\* an input of the call only then.
AsksVerifier(hand_data) ==
    /\ hand_data.present
    /\ LET rec == recognize_with_confidence(hand_data.scores)
           confidence == AdjustedConfidence(rec[2], hand_data.confidence)
       IN  Band(_get_stable_gesture(
                    _update_history(gesture_histories, rec[1], confidence)))
               = "verify"

AnswersFor(hand_data) ==
    IF AsksVerifier(hand_data) THEN VerifierAnswers ELSE {"unasked"}

HybridUpdateWith(hands, steps) ==
    \E hand_data \in hands, step \in steps :
        \E answer \in AnswersFor(hand_data) :
            /\ clock + step <= MaxClock
            /\ HybridUpdateEffect(hand_data, clock + step, answer)
            /\ clock' = clock + step
            /\ op' = "update"
            /\ UNCHANGED <<clutchVars, frameVars, sideVars>>

HybridUpdateOn(hands) == HybridUpdateWith(hands, ClockSteps)

HybridReset ==
    /\ HybridResetEffect
    /\ UNCHANGED clock
    /\ op' = "reset"
    /\ UNCHANGED <<clutchVars, frameVars, sideVars>>

\* The detector alone, configured the way both frame loops construct it.
InitHybrid ==
    /\ HybridInit
    /\ use_gemini_fallback = gemini_detector
    /\ require_stable_frames = DEFAULT_REQUIRE_STABLE_FRAMES
    /\ detection_history = <<>>
    /\ is_engaged = FALSE
    /\ was_engaged = FALSE
    /\ closed_run = 0
    /\ FrameInit
    /\ SideInit
    /\ loop = "main"
    /\ op = "init"

HybridUpdate == HybridUpdateOn(CommandHands)

NextHybrid == HybridUpdate \/ HybridReset

SpecHybrid == InitHybrid /\ [][NextHybrid]_vars

(***************************************************************************)
(* The detector alone under every constructor configuration, fed poses of  *)
(* every confidence band; the clock either stands still or passes the      *)
(* cooldown.                                                               *)
(***************************************************************************)
BandPoses ==
    {PoseOf("peace_sign", 50, 100), PoseOf("peace_sign", 65, 100),
     PoseOf("peace_sign", 85, 100), PoseOf("open_palm", 85, 0)}

BandHands == {NoHand} \cup BandPoses

BandClockSteps == {0, 501}

InitBands ==
    /\ HybridInit
    /\ require_stable_frames = DEFAULT_REQUIRE_STABLE_FRAMES
    /\ detection_history = <<>>
    /\ is_engaged = FALSE
    /\ was_engaged = FALSE
    /\ closed_run = 0
    /\ FrameInit
    /\ SideInit
    /\ loop = "main"
    /\ op = "init"

BandsUpdate == HybridUpdateWith(BandHands, BandClockSteps)

NextBands == BandsUpdate \/ HybridReset

SpecBands == InitBands /\ [][NextBands]_vars

(***************************************************************************)
(* The default-constructed detector (no verifier) fed frames that do and   *)
(* frames that do not reach the exclusivity threshold.                     *)
(***************************************************************************)
StabilityPoses ==
    {PoseOf("peace_sign", 35, 100), PoseOf("peace_sign", 50, 100),
     PoseOf("peace_sign", 65, 100), PoseOf("peace_sign", 85, 100),
     PoseOf("open_palm", 50, 100)}

StabilityHands == {NoHand} \cup StabilityPoses

InitStability ==
    /\ InitBands
    /\ ~gemini_detector
    /\ use_gemini_fallback

StabilityUpdate == HybridUpdateWith(StabilityHands, BandClockSteps)

NextStability == StabilityUpdate \/ HybridReset

SpecStability == InitStability /\ [][NextStability]_vars

(***************************************************************************)
(* The two frame loops: main.py's window loop and ws_server.py's           *)
(* sync_process_frame.  One action is one whole frame.                     *)
(***************************************************************************)
FrameClockSpan == 900
FrameMaxClock == StartClock + FrameClockSpan

FrameClockSteps == {100, 501}

PeaceHigh == PoseOf("peace_sign", 85, 100)
PeaceMedium == PoseOf("peace_sign", 65, 100)
PalmHigh == PoseOf("open_palm", 85, 0)

FrameLeftHands == {NoHand, FistHand, OpenHand}
FrameRightHands == {NoHand, PeaceHigh, PeaceMedium, PalmHigh}

\* The gesture whose configured action is voice_dictation.
VoiceGesture == "open_palm"

is_voice_gesture(gesture) == gesture = VoiceGesture

GestureProcessingEnabled_IgnoreClutch(clutch_engaged, settings_is_visible) ==
    ~settings_is_visible

\* main.py: "if clutch_engaged and not settings_ui.is_visible".
GestureProcessingEnabled(clutch_engaged, settings_is_visible) ==
    clutch_engaged /\ ~settings_is_visible

\* ws_server.py: "if clutch_engaged".
WsGestureProcessingEnabled(clutch_engaged) == clutch_engaged

\* The source tag a frame reports with the detector's result: main.py's
\* detection_source, and the 'source' of ws_server.py's result['gesture'].
ReportedSource(result) == IF loop = "ws" THEN "local" ELSE result.source

\* The non-voice, non-'none' trigger that reaches execute_gesture_action.
Dispatched(triggered) ==
    IF triggered # Null /\ ~is_voice_gesture(triggered) /\ triggered # "none"
    THEN triggered ELSE Null

\* Push-to-talk edges between the previous frame's gesture and this one's.
VoiceStarts(current, previous) ==
    is_voice_gesture(current) /\ ~is_voice_gesture(previous)

VoiceStops(current, previous) ==
    ~VoiceStarts(current, previous)
    /\ is_voice_gesture(previous) /\ ~is_voice_gesture(current)

IsHighPeace(hand_data) ==
    /\ hand_data.present
    /\ recognize_with_confidence(hand_data.scores)[1] = "peace_sign"
    /\ AdjustedConfidence(recognize_with_confidence(hand_data.scores)[2],
                          hand_data.confidence) >= DEFAULT_HIGH_CONFIDENCE

\* Detector updates since its histories were last emptied.
UpdatesAfter(hand_data) ==
    IF ~hand_data.present
    THEN NoUpdates
    ELSE [n |-> Min(since_reset.n + 1, DEFAULT_STABILITY_FRAMES + 1),
          all_peace |-> since_reset.all_peace /\ IsHighPeace(hand_data)]

\* History variable: the frames in a row up to this one in which the clutch
\* was engaged, the engaging frame counted as the first.
EngagedRunAfter(clutch_engaged) ==
    IF clutch_engaged
    THEN Min(frame.engaged_run + 1, DEFAULT_STABILITY_FRAMES + 1)
    ELSE 0

ResetsDetector_Never(clutch_engaged) == FALSE

\* main.py's else branch: "if not clutch_engaged: gesture_detector.reset()".
ResetsDetector(clutch_engaged) == ~clutch_engaged

FrameClutch_NoReset(left_hand) == ClutchBecomes(ClutchAfterUpdate(left_hand))

\* The clutch part of a frame: update, then reset if the left hand is None.
FrameClutch(left_hand) ==
    ClutchBecomes(IF left_hand.present
                  THEN ClutchAfterUpdate(left_hand)
                  ELSE ClutchAfterReset)

\* The branch that runs the detector and dispatches.
ProcessGestures(right_hand, now, answer, clutch_engaged, left_hand) ==
    /\ HybridUpdateEffect(right_hand, now, answer)
    /\ since_reset' = UpdatesAfter(right_hand)
    /\ recording' =
         IF VoiceStarts(current_gesture', previous_gesture) THEN TRUE
         ELSE IF VoiceStops(current_gesture', previous_gesture) THEN FALSE
         ELSE recording
    /\ previous_gesture' = current_gesture'
    /\ frame' = [left_present |-> left_hand.present,
                 engaged |-> clutch_engaged,
                 updated |-> TRUE,
                 triggered |-> ret'.gesture,
                 source |-> ReportedSource(ret'),
                 dispatched |-> Dispatched(ret'.gesture),
                 started |-> VoiceStarts(current_gesture', previous_gesture),
                 stopped |-> VoiceStops(current_gesture', previous_gesture),
                 engaged_run |-> EngagedRunAfter(clutch_engaged)]

SkipGestures_KeepsRecording(resets, stops, clutch_engaged, left_hand) ==
    /\ IF resets
       THEN HybridResetEffect /\ since_reset' = NoUpdates
       ELSE UNCHANGED <<detectorVars, since_reset>>
    /\ UNCHANGED recording
    /\ frame' = [left_present |-> left_hand.present,
                 engaged |-> clutch_engaged,
                 updated |-> FALSE,
                 triggered |-> Null,
                 source |-> Null,
                 dispatched |-> Null,
                 started |-> FALSE,
                 stopped |-> FALSE,
                 engaged_run |-> EngagedRunAfter(clutch_engaged)]

\* The branch that skips the detector: reset it if asked, stop dictation.
SkipGestures(resets, stops, clutch_engaged, left_hand) ==
    /\ IF resets
       THEN HybridResetEffect /\ since_reset' = NoUpdates
       ELSE UNCHANGED <<detectorVars, since_reset>>
    /\ recording' = IF stops THEN FALSE ELSE recording
    /\ frame' = [left_present |-> left_hand.present,
                 engaged |-> clutch_engaged,
                 updated |-> FALSE,
                 triggered |-> Null,
                 source |-> Null,
                 dispatched |-> Null,
                 started |-> FALSE,
                 stopped |-> stops /\ recording,
                 engaged_run |-> EngagedRunAfter(clutch_engaged)]

RightHandsFor(processes) == IF processes THEN FrameRightHands ELSE {NoHand}

FocusFor(enabled) == IF enabled THEN BOOLEAN ELSE {TRUE}

MainFrame ==
    /\ loop = "main"
    /\ \E left_hand \in FrameLeftHands, step \in FrameClockSteps,
          key_s \in BOOLEAN :
         LET clutch_engaged == ClutchAfterUpdate(left_hand).is_engaged
             enabled == GestureProcessingEnabled(clutch_engaged,
                                                 settings_visible)
         IN  /\ clock + step <= FrameMaxClock
             /\ clock' = clock + step
             /\ FrameClutch(left_hand)
             /\ \E terminal_focused \in FocusFor(enabled) :
                  \E right_hand \in RightHandsFor(enabled /\ terminal_focused) :
                    \E answer \in AnswersFor(right_hand) :
                      IF enabled
                      THEN IF terminal_focused
                           THEN ProcessGestures(right_hand, clock + step,
                                                answer, clutch_engaged,
                                                left_hand)
                           ELSE /\ SkipGestures(FALSE, FALSE, clutch_engaged,
                                                left_hand)
                                /\ previous_gesture' = Null
                      ELSE /\ SkipGestures(ResetsDetector(clutch_engaged),
                                           TRUE, clutch_engaged, left_hand)
                           /\ previous_gesture' = Null
             /\ settings_visible' = (settings_visible # key_s)
             /\ op' = "main_frame"
             /\ UNCHANGED <<loop, sideVars>>

WsFrame ==
    /\ loop = "ws"
    /\ \E left_hand \in FrameLeftHands, step \in FrameClockSteps :
         LET clutch_engaged == ClutchAfterUpdate(left_hand).is_engaged
             enabled == WsGestureProcessingEnabled(clutch_engaged)
         IN  /\ clock + step <= FrameMaxClock
             /\ clock' = clock + step
             /\ FrameClutch(left_hand)
             /\ \E terminal_focused \in FocusFor(enabled) :
                  \E right_hand \in RightHandsFor(enabled /\ terminal_focused) :
                    \E answer \in AnswersFor(right_hand) :
                      IF enabled
                      THEN IF terminal_focused
                           THEN ProcessGestures(right_hand, clock + step,
                                                answer, clutch_engaged,
                                                left_hand)
                           ELSE /\ SkipGestures(FALSE, FALSE, clutch_engaged,
                                                left_hand)
                                /\ UNCHANGED previous_gesture
                      ELSE /\ SkipGestures(TRUE, TRUE, clutch_engaged,
                                           left_hand)
                           /\ previous_gesture' = Null
             /\ op' = "ws_frame"
             /\ UNCHANGED <<loop, settings_visible, sideVars>>

\* Both loops pass
\* use_gemini_fallback = (use_gemini_fallback and gemini_fallback is not None).
InitFrames ==
    /\ HybridInit
    /\ use_gemini_fallback = gemini_detector
    /\ require_stable_frames = DEFAULT_REQUIRE_STABLE_FRAMES
    /\ detection_history = <<>>
    /\ is_engaged = FALSE
    /\ was_engaged = FALSE
    /\ closed_run = 0
    /\ FrameInit
    /\ SideInit
    /\ loop \in {"main", "ws"}
    /\ op = "init"

NextFrames == MainFrame \/ WsFrame

SpecFrames == InitFrames /\ [][NextFrames]_vars

(***************************************************************************)
(* The frame thread and the verifier.  HybridGestureDetector.update calls  *)
(* verify_gesture_quick on the thread that called update, and              *)
(* verify_gesture_quick returns when the remote generate_content call      *)
(* does: the call is a step of its own (VerifierFrame issues it,           *)
(* VerifierReturns is its return), and update finishes with the answer.    *)
(***************************************************************************)
VerifierHands == {NoHand, PeaceMedium, PeaceHigh, PalmHigh}

VerifierClockSteps == {100, 501}

VerifierLatencies == {0, 200}

CallIssued(hand_data, now) ==
    [state |-> "verifying", hand_data |-> hand_data, issued_at |-> now,
     gap |-> IF call.issued_at = 0 THEN -1 ELSE now - call.issued_at,
     failures |-> call.failures]

CallReturned(answer) ==
    [call EXCEPT !.state = "idle",
                 !.failures = IF answer = "error" THEN 1 ELSE @]

\* The frame loop hands the next frame to update; update runs to its end
\* unless it reaches _verify_with_gemini.
VerifierFrame ==
    /\ call.state = "idle"
    /\ \E hand_data \in VerifierHands, step \in VerifierClockSteps :
         /\ clock + step <= FrameMaxClock
         /\ clock' = clock + step
         /\ IF AsksVerifier(hand_data)
            THEN /\ call' = CallIssued(hand_data, clock + step)
                 /\ op' = "verify_gesture_quick"
                 /\ UNCHANGED detectorVars
            ELSE /\ HybridUpdateEffect(hand_data, clock + step, "unasked")
                 /\ op' = "update"
                 /\ UNCHANGED call
    /\ UNCHANGED <<clutchVars, frameVars, gemini, handler, audio, extraVars>>

\* generate_content returns or raises; _try_trigger reads the clock after.
VerifierReturns ==
    /\ call.state = "verifying"
    /\ \E answer \in VerifierAnswers, latency \in VerifierLatencies :
         /\ clock + latency <= FrameMaxClock
         /\ clock' = clock + latency
         /\ HybridUpdateEffect(call.hand_data, clock + latency, answer)
         /\ call' = CallReturned(answer)
         /\ op' = "update"
    /\ UNCHANGED <<clutchVars, frameVars, gemini, handler, audio, extraVars>>

VerifierReset ==
    /\ call.state = "idle"
    /\ HybridReset

InitVerifier ==
    /\ InitBands
    /\ gemini_detector
    /\ use_gemini_fallback

NextVerifier == VerifierFrame \/ VerifierReturns \/ VerifierReset

SpecVerifier == InitVerifier /\ [][NextVerifier]_vars

(***************************************************************************)
(* GeminiGestureDetector.update on the frame thread and the worker threads *)
(* it starts (_process_frame_async), interleaved statement by statement    *)
(* where they share is_processing.                                         *)
(***************************************************************************)
GeminiClockSpan == 1100
GeminiMaxClock == StartClock + GeminiClockSpan

GeminiClockSteps == {100, 501}

\* What _detect_gesture_sync meets: a gesture name, 'none', or an exception
\* (which it turns into 'none').
DetectOutcomes == {"peace_sign", "none", "error"}

_detect_gesture_sync(outcome) == IF outcome = "error" THEN "none" ELSE outcome

GeminiStep(kind, issued, result) ==
    [kind |-> kind, issued |-> issued, ret |-> result]

\* The worker's test under processing_lock (lines 173-178).
WorkerProceeds_Unchecked(flag) == TRUE

WorkerProceeds(flag) == ~flag

FreeWorkers == {w \in Workers : gemini.workers[w] \in {"unused", "skipped", "done"}}

\* update lines 212-225: frame None resets; otherwise the sample interval
\* and then is_processing (under the lock) are tested.
GeminiUpdateBegins ==
    /\ gemini.update = "idle"
    /\ \E frame_present \in BOOLEAN, step \in GeminiClockSteps :
         /\ clock + step <= GeminiMaxClock
         /\ clock' = clock + step
         /\ gemini' =
              IF ~frame_present
              THEN [gemini EXCEPT !.current_gesture = Null,
                                  !.gesture_history = <<>>,
                                  !.last = GeminiStep("update_no_frame",
                                                      FALSE, Null)]
              ELSE IF clock + step - gemini.last_sample_time
                         < DEFAULT_SAMPLE_INTERVAL
              THEN [gemini EXCEPT !.last = GeminiStep("update_too_soon",
                                                      FALSE, Null)]
              ELSE IF gemini.is_processing
              THEN [gemini EXCEPT !.last = GeminiStep("update_found_pending",
                                                      FALSE, Null)]
              ELSE [gemini EXCEPT !.update = "passed",
                                  !.last = GeminiStep("update_passed",
                                                      FALSE, Null)]
    /\ op' = "gemini_update"
    /\ UNCHANGED <<clutchVars, detectorVars, frameVars, call, handler, audio,
                   extraVars>>

\* update lines 228-250: the sample time is recorded, the thread started,
\* and the current gesture triggers if the cooldown has elapsed.
GeminiUpdateStarts ==
    /\ gemini.update = "passed"
    /\ FreeWorkers # {}
    /\ LET w == CHOOSE x \in FreeWorkers : \A y \in FreeWorkers : x <= y
           triggers == /\ gemini.current_gesture \notin {Null, "none"}
                       /\ clock - gemini.last_trigger_time >= cooldown_ms
           result == IF triggers THEN gemini.current_gesture ELSE Null
       IN  gemini' =
             [gemini EXCEPT !.update = "idle",
                            !.last_sample_time = clock,
                            !.workers[w] = "started",
                            !.last_trigger_time = IF triggers THEN clock ELSE @,
                            !.last = GeminiStep("update_started", TRUE,
                                                result)]
    /\ op' = "gemini_update"
    /\ UNCHANGED <<clutchVars, hybridVars, frameVars, call, handler, audio,
                   extraVars>>

\* _process_frame_async lines 173-178.
WorkerEnters ==
    /\ \E w \in Workers :
         /\ gemini.workers[w] = "started"
         /\ gemini' =
              IF WorkerProceeds(gemini.is_processing)
              THEN [gemini EXCEPT !.is_processing = TRUE,
                                  !.workers[w] = "calling",
                                  !.last = GeminiStep("worker_calls", TRUE,
                                                      Null)]
              ELSE [gemini EXCEPT !.workers[w] = "skipped",
                                  !.last = GeminiStep("worker_found_pending",
                                                      FALSE, Null)]
    /\ op' = "worker"
    /\ UNCHANGED <<clutchVars, hybridVars, frameVars, call, handler, audio,
                   extraVars>>

\* _process_frame_async lines 180-194: the remote call ends and the history
\* is updated.
WorkerDetects ==
    /\ \E w \in Workers, outcome \in DetectOutcomes :
         /\ gemini.workers[w] = "calling"
         /\ LET detected_gesture == _detect_gesture_sync(outcome)
                history == DequeAppend(gemini.gesture_history,
                                       detected_gesture,
                                       GEMINI_STABILITY_FRAMES)
                stable == /\ Len(history) = GEMINI_STABILITY_FRAMES
                          /\ \A i \in 1..Len(history) :
                                 history[i] = detected_gesture
            IN  gemini' =
                  [gemini EXCEPT !.gesture_history = history,
                                 !.current_gesture =
                                     IF stable THEN detected_gesture ELSE @,
                                 !.workers[w] = "finishing",
                                 !.last = GeminiStep("worker_returned", FALSE,
                                                     Null)]
    /\ op' = "worker"
    /\ UNCHANGED <<clutchVars, hybridVars, frameVars, call, handler, audio,
                   extraVars>>

\* _process_frame_async lines 196-198 (finally).
WorkerFinishes ==
    /\ \E w \in Workers :
         /\ gemini.workers[w] = "finishing"
         /\ gemini' = [gemini EXCEPT !.is_processing = FALSE,
                                     !.workers[w] = "done",
                                     !.last = GeminiStep("worker_done", FALSE,
                                                         Null)]
    /\ op' = "worker"
    /\ UNCHANGED <<clutchVars, hybridVars, frameVars, call, handler, audio,
                   extraVars>>

InitGemini == InitVerifier

NextGemini ==
    \/ GeminiUpdateBegins
    \/ GeminiUpdateStarts
    \/ WorkerEnters
    \/ WorkerDetects
    \/ WorkerFinishes

SpecGemini == InitGemini /\ [][NextGemini]_vars

(***************************************************************************)
(* The action dispatcher: the configuration changes at runtime             *)
(* (set_gesture_command) and triggered gestures are executed, with any     *)
(* one keystroke call failing.                                             *)
(***************************************************************************)
RuntimeGestures == {"peace_sign", "thumbs_down", "wave"}
RuntimeCommands == {"/help", "run tests"}
RuntimeDescriptions == {Null, "", "Help"}

\* Configuration files in the old format: some gestures named with a plain
\* string, the others left out.
OldFormatGestures == {"peace_sign", "thumbs_down"}
OldFormatValues == {"clear_input", "run tests"}

ConfigFiles ==
    UNION {[named -> {OldFormat(v) : v \in OldFormatValues}] :
              named \in SUBSET OldFormatGestures}

SetGestureCommand ==
    /\ \E gesture \in RuntimeGestures, command \in RuntimeCommands,
          description \in RuntimeDescriptions :
         handler' = [handler EXCEPT !.config =
                        set_gesture_command(@, gesture, command, description)]
    /\ op' = "set_gesture_command"
    /\ UNCHANGED <<clutchVars, hybridVars, frameVars, call, gemini, audio,
                   extraVars>>

ResetToDefaults ==
    /\ handler' = [handler EXCEPT !.config = reset_to_defaults(@)]
    /\ op' = "reset_to_defaults"
    /\ UNCHANGED <<clutchVars, hybridVars, frameVars, call, gemini, audio,
                   extraVars>>

LoadConfig ==
    /\ \E file \in ConfigFiles :
         handler' = [handler EXCEPT !.config = load_config(file)]
    /\ op' = "load_config"
    /\ UNCHANGED <<clutchVars, hybridVars, frameVars, call, gemini, audio,
                   extraVars>>

ExecuteGestureAction ==
    /\ \E gesture \in DispatchGestures :
         \E fault \in Faults(gesture) :
             LET done == execute_gesture_action(gesture, fault)
             IN  handler' = [handler EXCEPT !.gesture = gesture,
                                            !.fault = fault,
                                            !.attempts = done.attempts,
                                            !.ret = done.ret]
    /\ op' = "execute_gesture_action"
    /\ UNCHANGED <<clutchVars, hybridVars, frameVars, call, gemini, audio,
                   extraVars>>

InitActions == InitHybrid

NextActions ==
    \/ SetGestureCommand
    \/ ResetToDefaults
    \/ LoadConfig
    \/ ExecuteGestureAction

SpecActions == InitActions /\ [][NextActions]_vars

(***************************************************************************)
(* Push-to-talk recording: the frame thread calls start_recording,         *)
(* stop_recording and process_transcription_queue; the recorder thread     *)
(* runs _recording_loop; the audio stream's callback fills the buffer.     *)
(* A thread that is inside model.transcribe, or inside Thread.join, stays  *)
(* there until the step that ends the call.  record_thread is the thread   *)
(* self.record_thread refers to; old_thread is the thread it referred to   *)
(* before the last start_recording replaced it.                            *)
(***************************************************************************)
audioRest == <<clutchVars, hybridVars, frameVars, call, gemini, handler,
                   extraVars>>

ThreadAlive == audio.record_thread \in {"running", "transcribing"}

OldThreadAlive == audio.old_thread \in {"running", "transcribing"}

RecorderThreads == {"record_thread", "old_thread"}

Queued(text_queue, has_text) ==
    IF has_text THEN Min(text_queue + 1, MaxQueued) ELSE text_queue

\* Where stop_recording goes after the join: _process_remaining_buffer
\* transcribes on the calling thread unless less than 0.5 s is buffered.
AfterJoin(buffered) ==
    IF buffered < MIN_REMAINING_UNITS THEN "idle" ELSE "transcribing"

\* start_recording: self.record_thread is replaced by a new thread, whatever
\* the thread it referred to is doing.  A third thread alive at once is left
\* out.
StartRecording ==
    /\ audio.caller = "idle"
    /\ ~(ThreadAlive /\ OldThreadAlive)
    /\ audio' = IF audio.recording THEN audio
                ELSE [audio EXCEPT !.recording = TRUE,
                                   !.should_stop = FALSE,
                                   !.audio_buffer = 0,
                                   !.old_thread = IF ThreadAlive
                                                  THEN audio.record_thread
                                                  ELSE @,
                                   !.record_thread = "running"]
    /\ op' = "start_recording"
    /\ UNCHANGED audioRest

\* stop_recording up to record_thread.join(timeout=2.0).
StopRecording ==
    /\ audio.caller = "idle"
    /\ audio' = IF ~audio.recording THEN audio
                ELSE [audio EXCEPT !.recording = FALSE,
                                   !.should_stop = TRUE,
                                   !.caller = IF ThreadAlive THEN "joining"
                                              ELSE AfterJoin(@.audio_buffer)]
    /\ op' = "stop_recording"
    /\ UNCHANGED audioRest

\* join returns: the thread has ended, or the timeout (2 s) has run out
\* while the thread is inside model.transcribe; between two transcriptions
\* the loop tests should_stop every 0.1 s.
JoinReturns ==
    /\ audio.caller = "joining"
    /\ \E timed_out \in BOOLEAN :
         /\ IF timed_out THEN audio.record_thread = "transcribing"
            ELSE ~ThreadAlive
         /\ audio' = [audio EXCEPT !.caller = AfterJoin(audio.audio_buffer)]
    /\ op' = "stop_recording"
    /\ UNCHANGED audioRest

\* model.transcribe returns in _process_remaining_buffer.
FinalTranscribed ==
    /\ audio.caller = "transcribing"
    /\ \E has_text \in BOOLEAN :
         audio' = [audio EXCEPT !.caller = "idle",
                                !.text_queue = Queued(@, has_text)]
    /\ op' = "stop_recording"
    /\ UNCHANGED audioRest

\* process_transcription_queue: get_nowait until the queue is empty.
ProcessTranscriptionQueue ==
    /\ audio.caller = "idle"
    /\ audio' = [audio EXCEPT !.text_queue = 0]
    /\ op' = "process_transcription_queue"
    /\ UNCHANGED audioRest

\* The callback of a recorder thread's input stream.
AudioCallback ==
    /\ ThreadAlive \/ OldThreadAlive
    /\ audio.audio_buffer < MaxAudioUnits
    /\ audio' = [audio EXCEPT !.audio_buffer = @ + 1]
    /\ op' = "audio_callback"
    /\ UNCHANGED audioRest

\* One round of the while loop in _recording_loop: it ends when should_stop
\* is set, and starts on a chunk when one is buffered.
RecordingLoop ==
    /\ \E thread \in RecorderThreads :
         /\ audio[thread] = "running"
         /\ \/ /\ audio.should_stop
               /\ audio' = [audio EXCEPT ![thread] = "ended"]
            \/ /\ audio.audio_buffer >= CHUNK_UNITS
               /\ audio' = [audio EXCEPT !.audio_buffer = @ - CHUNK_UNITS,
                                         ![thread] = "transcribing"]
    /\ op' = "recording_loop"
    /\ UNCHANGED audioRest

\* model.transcribe returns in _process_chunk.
ChunkTranscribed ==
    /\ \E thread \in RecorderThreads, has_text \in BOOLEAN :
         /\ audio[thread] = "transcribing"
         /\ audio' = [audio EXCEPT ![thread] = "running",
                                   !.text_queue = Queued(@, has_text)]
    /\ op' = "recording_loop"
    /\ UNCHANGED audioRest

InitAudio == InitHybrid

NextAudio ==
    \/ StartRecording
    \/ StopRecording
    \/ JoinReturns
    \/ FinalTranscribed
    \/ ProcessTranscriptionQueue
    \/ AudioCallback
    \/ RecordingLoop
    \/ ChunkTranscribed

SpecAudio == InitAudio /\ [][NextAudio]_vars

(***************************************************************************)
(* The recognizer on its own: one pose, and one of its methods called on   *)
(* it.  is_finger_extended is called twice in a row with the same          *)
(* arguments.                                                              *)
(***************************************************************************)
recognizerRest == <<clutchVars, hybridVars, frameVars, call, gemini, handler,
                    audio, instances>>

IsFingerExtended ==
    /\ recognizer.call = "none"
    /\ \E joints \in FingerJoints, with_mcp \in BOOLEAN :
         LET mcp_id == IF with_mcp THEN <<joints[3]>> ELSE <<>>
             first == CallIsFingerExtended(recognizer.self,
                          recognizer.landmarks, joints[1], joints[2], mcp_id)
             second == CallIsFingerExtended(first.self, first.landmarks,
                           joints[1], joints[2], mcp_id)
         IN  recognizer' = [recognizer EXCEPT
                               !.call = "is_finger_extended",
                               !.joints = <<joints[1], joints[2]>> \o mcp_id,
                               !.first = first.ret,
                               !.second = second.ret,
                               !.self = second.self,
                               !.landmarks = second.landmarks]
    /\ op' = "is_finger_extended"
    /\ UNCHANGED recognizerRest

\* detect_open_palm, detect_peace_sign and detect_rock_sign, and the three
\* confidence functions, on the same pose
DetectAndScore ==
    /\ recognizer.call = "none"
    /\ recognizer' =
         [recognizer EXCEPT
            !.call = "detect",
            !.detected =
                {t \in {"open_palm"} : detect_open_palm(recognizer.landmarks)}
                \cup {t \in {"peace_sign"} :
                         detect_peace_sign(recognizer.landmarks)}
                \cup {t \in {"rock_sign"} :
                         detect_rock_sign(recognizer.landmarks)},
            !.scores = ScoresOf(recognizer.landmarks, NoReading)]
    /\ op' = "detect"
    /\ UNCHANGED recognizerRest

RecognizeWithConfidence ==
    /\ recognizer.call = "none"
    /\ \E reading \in Readings :
         LET scores == ScoresOf(recognizer.landmarks, reading)
         IN  recognizer' = [recognizer EXCEPT
                               !.call = "recognize_with_confidence",
                               !.reading = reading,
                               !.scores = scores,
                               !.ret = recognize_with_confidence(scores)]
    /\ op' = "recognize_with_confidence"
    /\ UNCHANGED recognizerRest

InitRecognizer ==
    /\ IdleInit
    /\ instances = InstancesInit
    /\ \E landmarks \in Skeletons : recognizer = RecognizerOn(landmarks)

NextRecognizer ==
    IsFingerExtended \/ DetectAndScore \/ RecognizeWithConfidence

SpecRecognizer == InitRecognizer /\ [][NextRecognizer]_vars

(***************************************************************************)
(* Detector objects constructed one after another, with and without        *)
(* overrides, and fed peace_sign frames.                                   *)
(***************************************************************************)
instancesRest == <<clutchVars, hybridVars, frameVars, call, gemini, handler,
                   audio, recognizer>>

ConstructDetector ==
    /\ Len(instances.detectors) < MaxDetectors
    /\ \E override \in Overrides :
         LET heap == MergeOverride(instances.heap,
                                   ShallowCopy(DEFAULT_GESTURE_CONFIG),
                                   override)
         IN  instances' =
                [heap |-> heap,
                 detectors |-> Append(instances.detectors,
                                      NewDetector(heap, override))]
    /\ op' = "construct"
    /\ UNCHANGED instancesRest

DetectorUpdate ==
    /\ \E d \in 1..Len(instances.detectors) :
         /\ instances.detectors[d].frames < MaxInstanceFrames
         /\ instances' =
              [instances EXCEPT
                 !.detectors[d] =
                     DetectorAfterPeaceFrame(instances.heap, @)]
    /\ op' = "update"
    /\ UNCHANGED instancesRest

InitInstances ==
    /\ IdleInit
    /\ recognizer = RecognizerInit
    /\ instances = InstancesInit

NextInstances == ConstructDetector \/ DetectorUpdate

SpecInstances == InitInstances /\ [][NextInstances]_vars

(***************************************************************************)
(* Claims about the clutch detector (checked under SpecClutch).            *)
(***************************************************************************)
\* C1: after any sequence of update and reset calls, is_engaged is true if
\* and only if the detection window holds exactly require_stable_frames
\* entries and every entry is a closed-fist detection; it is never true
\* while the window is not full.
C1_EngagedIffWindowFullOfFists ==
    is_engaged <=> /\ Len(detection_history) = require_stable_frames
                   /\ \A i \in 1..Len(detection_history) :
                          detection_history[i] = TRUE

\* An update has just engaged the clutch on a window of several frames.
C1_Witness ==
    /\ op = "update_closed"
    /\ is_engaged
    /\ require_stable_frames >= 3
    /\ Len(detection_history) = require_stable_frames

\* C2: the clutch is engaged exactly when the last require_stable_frames
\* updates in a row (since the window was last empty) were closed fists:
\* it engages on the N-th consecutive closed-fist update and not earlier,
\* the first update that is not a closed fist disengages it on that frame,
\* and it stays disengaged until N consecutive closed-fist updates have been
\* fed again.
C2_ClutchHysteresis ==
    is_engaged <=> closed_run = require_stable_frames

\* The update that was not a closed fist came right after an engaged window
\* and disengaged the clutch on that frame.
C2_Witness ==
    /\ op = "update_open"
    /\ was_engaged
    /\ ~is_engaged
    /\ require_stable_frames >= 3
    /\ Len(detection_history) = require_stable_frames
    /\ CountTrue(detection_history) = require_stable_frames - 1

(***************************************************************************)
(* Claims about the hybrid detector (checked under SpecHybrid).            *)
(*                                                                         *)
(* After an update, gesture_histories is what _get_stable_gesture read, so *)
(* Candidate is the stable candidate that update saw.  The thresholds of   *)
(* the claims are written out here, independently of the detector's.       *)
(***************************************************************************)
Candidate == _get_stable_gesture(gesture_histories)

HasCandidate == op = "update" /\ Candidate.gesture \notin {Null, "none"}

ClaimedSkipThreshold(g) == IF g = "open_palm" THEN 75000 ELSE 80000

InHighBand ==
    /\ HasCandidate
    /\ Candidate.sum >= ClaimedSkipThreshold(Candidate.gesture) * Candidate.n

InMediumBand ==
    /\ HasCandidate
    /\ Candidate.sum >= 60000 * Candidate.n
    /\ Candidate.sum < ClaimedSkipThreshold(Candidate.gesture) * Candidate.n

VerifierOn == gemini_detector /\ use_gemini_fallback

\* The candidate would be accepted without asking anybody.
InAcceptingBand == InHighBand \/ (InMediumBand /\ ~VerifierOn)

Triggered == op = "update" /\ ret.gesture # Null

\* A trigger had been returned before the last call began, at EarlierTime.
HadEarlierTrigger == before.ret.gesture # Null
EarlierTime == before.ret.time

\* C4: for any two triggers returned by update, over any interleaving of
\* update and reset calls with a non-decreasing clock, the later trigger is
\* at least cooldown_ms after the earlier one.
C4_OneTriggerPerCooldown ==
    (Triggered /\ HadEarlierTrigger) => clock - EarlierTime >= 500

\* A second trigger has been returned, after a reset in between.
C4_Witness ==
    /\ Triggered
    /\ HadEarlierTrigger
    /\ before.since.reset
    /\ clock - EarlierTime >= 500

\* C5: after template A triggers at time t (updates only, no reset since),
\* (a) A stable again less than cooldown_ms later does not trigger, (b) A
\* stable again at any later time, t + cooldown + 1 included, with no
\* different stable gesture in between does not trigger, and (c) a
\* different template B stable in an accepting band at t + cooldown or
\* later does trigger.
C5_CooldownAndSameGestureSuppression ==
    (HasCandidate /\ HadEarlierTrigger /\ ~before.since.reset) =>
        /\ (Candidate.gesture = before.ret.gesture
              /\ clock - EarlierTime < 500) => ~Triggered
        /\ (Candidate.gesture = before.ret.gesture
              /\ ~before.since.other_stable) => ~Triggered
        /\ (Candidate.gesture # before.ret.gesture
              /\ InAcceptingBand
              /\ clock - EarlierTime >= 500) =>
                (Triggered /\ ret.gesture = Candidate.gesture)

\* B has triggered exactly cooldown + 1 ms after A did.
C5_Witness ==
    /\ HasCandidate
    /\ HadEarlierTrigger
    /\ ~before.since.reset
    /\ before.ret.gesture = "peace_sign"
    /\ clock - EarlierTime = 501
    /\ Triggered
    /\ ret.gesture = "open_palm"

\* A was stable again, in the high band, cooldown + 1 ms after it triggered
\* and with nothing else seen in between, and did not trigger.
C5_WitnessSuppressed ==
    /\ InHighBand
    /\ HadEarlierTrigger
    /\ before.since = NoEvents
    /\ Candidate.gesture = before.ret.gesture
    /\ clock - EarlierTime = 501
    /\ ~Triggered

\* C6: a template A that has triggered triggers again once the cooldown has
\* elapsed and a different stable template B has been observed in between,
\* even if B itself did not trigger.
C6_RetriggerAfterOtherStable ==
    (/\ HasCandidate
     /\ InAcceptingBand
     /\ HadEarlierTrigger
     /\ Candidate.gesture = before.ret.gesture
     /\ before.since.other_stable
     /\ clock - EarlierTime >= 500) =>
        (Triggered /\ ret.gesture = Candidate.gesture)

\* C7: with no reset (the clutch stays engaged) and cooldown 500 ms, after
\* peace_sign triggers, a frame whose winner is 'none' followed by a stable
\* high-confidence peace_sign more than 600 ms after the first trigger
\* produces a second peace_sign trigger.
C7_RetriggerAfterNoneFrame ==
    (/\ InHighBand
     /\ Candidate.gesture = "peace_sign"
     /\ HadEarlierTrigger
     /\ before.ret.gesture = "peace_sign"
     /\ before.since.none_frame
     /\ ~before.since.reset
     /\ clock - EarlierTime > 600) =>
        (Triggered /\ ret.gesture = "peace_sign")

\* C9: a stable candidate whose mean window confidence is at or above its
\* skip threshold (0.80, and 0.75 for open_palm) never reaches the verifier,
\* and it is accepted on that frame with source 'local' provided the
\* cooldown has elapsed and it differs from the last triggered template.
C9_HighBandLocalNoVerifier ==
    InHighBand =>
        /\ verifier = NotAsked
        /\ (/\ clock - before.last_trigger_time >= 500
            /\ Candidate.gesture # before.last_triggered_gesture) =>
                /\ Triggered
                /\ ret.gesture = Candidate.gesture
                /\ ret.source = "local"
                /\ ret.confidence * Candidate.n <= Candidate.sum
                /\ ret.confidence >=
                       ClaimedSkipThreshold(Candidate.gesture)

\* With a verifier configured and enabled, open_palm was accepted locally at
\* a mean confidence between 0.75 and 0.80.
C9_Witness ==
    /\ InHighBand
    /\ VerifierOn
    /\ Triggered
    /\ ret.gesture = "open_palm"
    /\ ret.source = "local"
    /\ ret.confidence < 80000
    /\ verifier = NotAsked

\* C10: with a verifier configured and enabled, a stable candidate whose
\* mean confidence is at least 0.60 and below its skip threshold triggers
\* only if the verifier was asked about that candidate and confirmed it; if
\* the verifier does not confirm it, update returns no trigger and
\* last_triggered_gesture and last_trigger_time are unchanged.
C10_MediumBandNeedsVerifier ==
    (InMediumBand /\ VerifierOn) =>
        /\ verifier.asked = Candidate.gesture
        /\ Triggered => verifier.answer = "yes"
        /\ verifier.answer # "yes" =>
              /\ ret = NoTrigger
              /\ last_triggered_gesture = before.last_triggered_gesture
              /\ last_trigger_time = before.last_trigger_time

\* The verifier denied a medium-band candidate that was otherwise free to
\* trigger.
C10_WitnessDenied ==
    /\ InMediumBand
    /\ VerifierOn
    /\ verifier.answer = "no"
    /\ ret = NoTrigger
    /\ clock - last_trigger_time >= 500
    /\ Candidate.gesture # last_triggered_gesture

\* The verifier confirmed a medium-band candidate, which triggered.
C10_Witness ==
    /\ InMediumBand
    /\ VerifierOn
    /\ verifier.answer = "yes"
    /\ Triggered
    /\ ret.gesture = verifier.asked

(***************************************************************************)
(* Claims about the frame loops (checked under SpecFrames).                *)
(***************************************************************************)
\* C3: no gesture trigger and no dispatched action occurs in a frame in
\* which the clutch is not engaged: in both frame loops the detector's
\* update and execute_gesture_action are reached only when the clutch
\* detector's update returned true for that frame, so nothing fires in a
\* frame where the clutch hand is absent.
C3_NothingFiresUnlessClutchEngaged ==
    /\ frame.updated => frame.engaged /\ is_engaged
    /\ frame.triggered # Null => frame.engaged
    /\ frame.dispatched # Null => frame.engaged
    /\ ~frame.left_present =>
          /\ ~frame.updated
          /\ frame.triggered = Null
          /\ frame.dispatched = Null
          /\ ~frame.started

\* A frame with the clutch engaged has dispatched a triggered gesture.
C3_Witness ==
    /\ frame.engaged
    /\ frame.updated
    /\ frame.dispatched = "peace_sign"
    /\ loop = "ws"

\* C8: end to end with require_stable_frames = 5 and stability_frames = 3:
\* the detector is consulted only once five consecutive closed-fist frames
\* have engaged the clutch; of the engaged frames whose command-hand winner
\* is a high-confidence peace_sign, the first two trigger nothing, the third
\* triggers peace_sign once (source 'local'), and a further
\* frame of the same stable peace_sign (100 ms later, cooldown 500 ms)
\* triggers nothing.
C8_EndToEndSingleTrigger ==
    frame.updated =>
      /\ Len(detection_history) = DEFAULT_REQUIRE_STABLE_FRAMES
      /\ AllTrue(detection_history)
      /\ since_reset.all_peace /\ since_reset.n >= 1 =>
            /\ since_reset.n < DEFAULT_STABILITY_FRAMES =>
                  frame.triggered = Null
            /\ ( /\ since_reset.n = DEFAULT_STABILITY_FRAMES
                 /\ clock - before.last_trigger_time >= cooldown_ms
                 /\ before.last_triggered_gesture # "peace_sign" ) =>
                  /\ frame.triggered = "peace_sign"
                  /\ ret.source = "local"
                  /\ last_trigger_time = clock
            /\ ( /\ since_reset.n > DEFAULT_STABILITY_FRAMES
                 /\ before.last_triggered_gesture = "peace_sign" ) =>
                  frame.triggered = Null

\* The fourth peace_sign frame, 100 ms after the third one triggered.
C8_Witness ==
    /\ frame.updated
    /\ since_reset.all_peace
    /\ since_reset.n = DEFAULT_STABILITY_FRAMES + 1
    /\ last_ret.gesture = "peace_sign"
    /\ clock - last_ret.time = 100
    /\ frame.triggered = Null
    /\ closed_run = DEFAULT_REQUIRE_STABLE_FRAMES

(***************************************************************************)
(* Claims about the confidence bands and the stability histories (checked  *)
(* under SpecBands).                                                       *)
(***************************************************************************)
InLowBand == HasCandidate /\ Candidate.sum < 60000 * Candidate.n

\* Neither of _try_trigger's two checks stands in the candidate's way.
FreeToTrigger ==
    /\ clock - before.last_trigger_time >= 500
    /\ Candidate.gesture # before.last_triggered_gesture

\* C11: when no verifier is configured, or the fallback is disabled, a
\* stable candidate whose mean confidence is at least 0.60 and below its skip
\* threshold is accepted with source 'local' without the verifier being
\* asked, subject only to the cooldown and same-gesture checks.
C11_MediumBandWithoutVerifierLocal ==
    (InMediumBand /\ ~VerifierOn) =>
        /\ verifier = NotAsked
        /\ Triggered <=> FreeToTrigger
        /\ Triggered =>
              /\ ret.gesture = Candidate.gesture
              /\ ret.source = "local"
              /\ ret.confidence * Candidate.n <= Candidate.sum
              /\ ret.confidence >= 60000

\* A verifier is configured but the fallback is disabled, and a medium-band
\* peace_sign has triggered locally.
C11_Witness ==
    /\ InMediumBand
    /\ gemini_detector
    /\ ~use_gemini_fallback
    /\ Triggered
    /\ ret.gesture = "peace_sign"
    /\ ret.source = "local"

\* C12: a stable candidate whose mean window confidence is below 0.60 never
\* triggers, with or without a verifier, and the verifier is not asked about
\* it.
C12_LowBandNeverTriggers ==
    InLowBand =>
        /\ ~Triggered
        /\ ret = NoTrigger
        /\ verifier = NotAsked
        /\ last_trigger_time = before.last_trigger_time
        /\ last_triggered_gesture = before.last_triggered_gesture

\* With a verifier enabled, a low-band candidate that neither the cooldown
\* nor the same-gesture check would have stopped did not trigger.
C12_Witness ==
    /\ InLowBand
    /\ VerifierOn
    /\ FreeToTrigger
    /\ Candidate.sum >= 40000 * Candidate.n
    /\ ~Triggered

\* C13: the source tag reported for a trigger, both in the tuple returned by
\* update and in the per-frame gesture state the frame loop exposes, is
\* "verified" exactly when the trigger was accepted through verifier
\* confirmation and "local" otherwise.
C13_SourceTagVerifiedIffConfirmed ==
    (frame.updated /\ frame.triggered # Null) =>
        LET claimed == IF verifier.answer = "yes" THEN "verified"
                       ELSE "local"
        IN  /\ ret.source = claimed
            /\ frame.source = claimed

(***************************************************************************)
(* Claims about the stability histories (checked under SpecStability).     *)
(***************************************************************************)
OtherHistories(gesture) == HistoryKeys \ {gesture}

\* C14: whenever a frame's winning template has adjusted confidence of at
\* least 0.60, the history of every other template, the 'none' history
\* included, has length 0 at the end of that update; a frame with
\* confidence below 0.60 clears no history.
C14_Exclusivity ==
    [][ (op' = "update" /\ seen'.present) =>
          IF seen'.confidence >= 60000
          THEN \A g \in OtherHistories(seen'.gesture) :
                   Len(gesture_histories'[g]) = 0
          ELSE /\ \A g \in OtherHistories(seen'.gesture) :
                     gesture_histories'[g] = gesture_histories[g]
               /\ \A g \in HistoryKeys :
                     Len(gesture_histories'[g]) >= Len(gesture_histories[g])
      ]_vars

\* A frame below 0.60 has left the histories of two other templates filled.
C14_Witness ==
    /\ op = "update"
    /\ seen.present
    /\ seen.gesture = "open_palm"
    /\ seen.confidence < 60000
    /\ Len(gesture_histories["open_palm"]) >= 1
    /\ Len(gesture_histories["peace_sign"]) >= 2
    /\ Len(gesture_histories["none"]) >= 1

\* A frame at 0.65 has emptied every history but its winner's.
C14_WitnessCleared ==
    /\ op = "update"
    /\ seen.present
    /\ seen.gesture = "peace_sign"
    /\ seen.confidence = 65000
    /\ Len(gesture_histories["peace_sign"]) = 3
    /\ \A g \in OtherHistories("peace_sign") : gesture_histories[g] = <<>>

\* The last three hand-present frames all had this winner.
NamedByRecentFrames(gesture) ==
    seen.present /\ seen.gesture = gesture /\ seen.n >= 3

\* C15: a template with stability_frames = 3 is stable only when the 3 most
\* recent hand-present frames all had it as winner; two matching frames
\* followed by a differing frame yield no stable result and bring neither
\* template closer to stability, so matching frames separated by differing
\* frames never add up to a stable result or a trigger.
C15_StabilityNeedsConsecutiveFrames ==
    /\ (HasCandidate /\ Candidate.gesture = "peace_sign") =>
            NamedByRecentFrames("peace_sign")
    /\ (Triggered /\ ret.gesture = "peace_sign") =>
            NamedByRecentFrames("peace_sign")

\* peace_sign has triggered on a frame that did not complete three
\* peace_sign frames in a row.
C15_TriggerFromSeparatedFrames ==
    /\ Triggered
    /\ ret.gesture = "peace_sign"
    /\ seen.gesture = "peace_sign"
    /\ seen.n = 1

StableTemplates == {g \in HistoryKeys : IsStable(gesture_histories, g)}

\* C16: in every reachable state of the detector at most one template
\* satisfies the stability condition (history full and all entries naming
\* it), so the candidate _get_stable_gesture returns does not depend on the
\* iteration order of the histories.
C16_AtMostOneStableTemplate == Cardinality(StableTemplates) <= 1

\* Two templates are stable at once, and the one iterated first hides a
\* medium-band candidate that was free to trigger.
C16_StableCandidateHidden ==
    /\ StableTemplates = {"open_palm", "peace_sign"}
    /\ Candidate.gesture = "open_palm"
    /\ ConfSum(gesture_histories["peace_sign"]) >= 60000 * 3
    /\ clock - last_trigger_time >= 500
    /\ last_triggered_gesture # "peace_sign"
    /\ ~Triggered

(***************************************************************************)
(* Claims about the trigger state across templates and resets (checked     *)
(* under SpecHybrid).                                                      *)
(***************************************************************************)
\* The frame just seen completed three high-confidence frames in a row for
\* one of the ten templates.
HeldHighConfidence ==
    /\ op = "update"
    /\ seen.present
    /\ seen.gesture \in Templates
    /\ seen.high
    /\ seen.n >= 3

\* C17: each of the ten templates has a stability history to which its
\* winning frames are appended, so any of them, held as the high-confidence
\* winner for its stability_frames (default 3) consecutive frames with the
\* cooldown elapsed and a different last-triggered template, produces a
\* trigger.
C17_EveryTemplateTriggers ==
    /\ Templates \subseteq DOMAIN gesture_histories
    /\ (HeldHighConfidence
          /\ clock - before.last_trigger_time >= 500
          /\ seen.gesture # before.last_triggered_gesture) =>
            /\ Len(gesture_histories[seen.gesture]) >= 1
            /\ Triggered
            /\ ret.gesture = seen.gesture

\* The same for the five templates of DEFAULT_GESTURE_CONFIG only.
ConfiguredTemplatesTrigger ==
    (HeldHighConfidence
       /\ seen.gesture \in Configured
       /\ clock - before.last_trigger_time >= 500
       /\ seen.gesture # before.last_triggered_gesture) =>
         (Triggered /\ ret.gesture = seen.gesture)

\* ok_sign was held at 0.85 for three frames, free to trigger, and did not.
C17_UnconfiguredTemplateIgnored ==
    /\ HeldHighConfidence
    /\ seen.gesture = "ok_sign"
    /\ last_trigger_time = 0
    /\ ~Triggered

\* The candidate is the template of the last trigger, the detector has been
\* reset since that trigger, and no other template has been stable since.
SameCandidateAfterReset ==
    /\ HasCandidate
    /\ HadEarlierTrigger
    /\ before.since.reset
    /\ ~before.since.other_stable
    /\ Candidate.gesture = before.ret.gesture

\* C18 as stated: reset (the clutch disengaging) does not clear the last
\* triggered template; if A triggered and the detector was then reset, a
\* stable high-confidence A after the cooldown does not trigger until a
\* different gesture has intervened.
C18_LastTriggeredSurvivesReset ==
    /\ op = "reset" => last_triggered_gesture = before.last_triggered_gesture
    /\ (SameCandidateAfterReset /\ InHighBand) => ~Triggered

\* C18 amended: reset clears the last triggered template; if A triggered
\* and the detector was then reset, a stable high-confidence A triggers
\* again as soon as the cooldown has elapsed, with no different gesture in
\* between (and not before the cooldown has elapsed).
C18_ResetClearsLastTriggered ==
    /\ op = "reset" => last_triggered_gesture = Null
    /\ (SameCandidateAfterReset /\ InHighBand) =>
          /\ before.last_triggered_gesture = Null
          /\ Triggered <=> clock - EarlierTime >= 500
          /\ Triggered => ret.gesture = Candidate.gesture

\* A has triggered a second time, after a reset and the cooldown, with
\* nothing else stable in between.
C18_Witness ==
    /\ SameCandidateAfterReset
    /\ InHighBand
    /\ Triggered
    /\ ret.gesture = before.ret.gesture
    /\ clock - EarlierTime >= 500

\* C19: reset leaves last_trigger_time unchanged, so the cooldown survives
\* a clutch cycle: after a trigger at time t and a reset, no template, the
\* same or a different one, triggers before t + cooldown_ms.
C19_CooldownSurvivesReset ==
    /\ op = "reset" => last_trigger_time = before.last_trigger_time
    /\ HadEarlierTrigger => before.last_trigger_time = EarlierTime
    /\ (op = "update" /\ HadEarlierTrigger /\ before.since.reset
          /\ clock - EarlierTime < 500) =>
            /\ ~Triggered
            /\ last_trigger_time = EarlierTime

\* After a trigger and a reset, a different template was stable in the high
\* band inside the cooldown and did not trigger.
C19_Witness ==
    /\ InHighBand
    /\ HadEarlierTrigger
    /\ before.since.reset
    /\ Candidate.gesture # before.ret.gesture
    /\ before.last_triggered_gesture = Null
    /\ clock - EarlierTime = 250
    /\ ~Triggered

C20_WitnessDisengaged ==
    /\ op = "main_frame"
    /\ frame.left_present
    /\ ~frame.engaged
    /\ was_engaged
    /\ last_ret.gesture # Null
    /\ gesture_histories = EmptyHistories

(***************************************************************************)
(* Claims about missing hands.                                             *)
(***************************************************************************)
FrameDone == op \in {"main_frame", "ws_frame"}

\* C21 (under SpecFrames): a frame with no clutch hand is processed like
\* any other frame and leaves the clutch disengaged with an empty detection
\* window, so after the hand reappears engagement again needs
\* require_stable_frames consecutive closed-fist frames.
C21_MissingClutchHandResetsClutch ==
    /\ (FrameDone /\ ~frame.left_present) =>
          /\ ~frame.engaged
          /\ ~is_engaged
          /\ detection_history = <<>>
          /\ closed_run = 0
    /\ (FrameDone /\ frame.engaged) =>
          /\ frame.left_present
          /\ closed_run = require_stable_frames
          /\ Len(detection_history) = require_stable_frames
          /\ AllTrue(detection_history)

\* The clutch hand has disappeared while the clutch was engaged.
C21_Witness ==
    /\ FrameDone
    /\ ~frame.left_present
    /\ was_engaged
    /\ ~is_engaged
    /\ detection_history = <<>>

\* C22 (under SpecHybrid): update with no hand data returns no trigger,
\* leaves every template history empty, and afterwards the reported current
\* gesture no longer names the gesture detected on earlier frames.
C22_MissingCommandHandResetsGestureState ==
    (op = "update" /\ ~seen.present) =>
        /\ ret = NoTrigger
        /\ gesture_histories = EmptyHistories
        /\ current_gesture \in {Null, "none"}

(***************************************************************************)
(* C23  The verifier call is off the per-frame critical path: in every     *)
(* state in which a verification requested for a medium-confidence         *)
(* candidate has not yet returned, the frame loop can accept and evaluate  *)
(* the next frame, so a verifier that never answers does not stop frame    *)
(* processing.                                                             *)
(***************************************************************************)
VerifierPending == call.state = "verifying"

C23_FramesAcceptedWhileVerifierPending ==
    VerifierPending => ENABLED VerifierFrame

(***************************************************************************)
(* C24  At most one verifier request is in flight at any time: for any     *)
(* interleaving of GeminiGestureDetector.update calls and worker threads   *)
(* at most one thread is inside the remote detection call; an update or a  *)
(* worker that finds a request pending issues nothing and triggers         *)
(* nothing; and the in-progress flag is set exactly while a worker is      *)
(* between entering the call and the end of its finally block, whatever    *)
(* the call's outcome.                                                     *)
(***************************************************************************)
InRemoteCall == {w \in Workers : gemini.workers[w] = "calling"}

HoldsFlag == {w \in Workers : gemini.workers[w] \in {"calling", "finishing"}}

C24_AtMostOneVerifierRequestInFlight ==
    /\ Cardinality(InRemoteCall) <= 1
    /\ gemini.is_processing <=> HoldsFlag # {}
    /\ gemini.last.kind \in {"update_found_pending", "worker_found_pending"}
          => ~gemini.last.issued /\ gemini.last.ret = Null

\* Two threads were started; one is inside the call and the other found it
\* pending and left.
C24_Witness ==
    \E w1, w2 \in Workers :
        /\ gemini.workers[w1] = "calling"
        /\ gemini.workers[w2] = "skipped"
        /\ gemini.last.kind = "worker_found_pending"

\* An update that found a request pending.
C24_WitnessUpdateSkipped ==
    /\ gemini.last.kind = "update_found_pending"
    /\ gemini.is_processing

(***************************************************************************)
(* C25  Verifier requests are rate-limited independently of the frame      *)
(* rate: any two verifier calls issued because of                          *)
(* HybridGestureDetector.update are at least the sample interval (0.5 s)   *)
(* apart, even when a medium-confidence candidate stays stable over many   *)
(* consecutive frames.                                                     *)
(***************************************************************************)
C25_VerifierCallsRateLimited ==
    call.gap = -1 \/ call.gap >= DEFAULT_SAMPLE_INTERVAL

(***************************************************************************)
(* C26  A verifier failure (exception, encoding failure or unusable        *)
(* response) is treated as "not confirmed": the update that asked returns  *)
(* no trigger and raises nothing (it returns to the frame loop), the       *)
(* trigger state (last_triggered_gesture, last_trigger_time) is as it was  *)
(* when the frame was accepted, and the frame has been recorded like any   *)
(* other, so that later frames are processed normally.                     *)
(***************************************************************************)
VerifierFailed == op = "update" /\ verifier.answer = "error"

C26_VerifierFailureIsNotConfirmed ==
    VerifierFailed =>
        /\ ret = NoTrigger
        /\ call.state = "idle"
        /\ last_triggered_gesture = before.last_triggered_gesture
        /\ last_trigger_time = before.last_trigger_time
        /\ Candidate.gesture = verifier.asked

\* A verified trigger on a frame later than a failed verification.
C26_Witness ==
    /\ call.failures = 1
    /\ op = "update"
    /\ verifier.answer = "yes"
    /\ ret.gesture = "peace_sign"
    /\ ret.source = VerifiedSource

\* The failed verification itself, with an earlier trigger left in place.
C26_WitnessFailed ==
    /\ VerifierFailed
    /\ last_triggered_gesture = "open_palm"
    /\ verifier.asked = "peace_sign"

(***************************************************************************)
(* C27  execute_gesture_action reads the configuration entry of the        *)
(* triggered template on every trigger: for every template whose entry     *)
(* names a literal command (one changed at runtime through                 *)
(* set_gesture_command included) it types that command followed by an      *)
(* enter key and returns the configured description.                       *)
(***************************************************************************)
Executed == op = "execute_gesture_action"

ConfiguredEntry == handler.config[handler.gesture]

C27_DispatchFollowsConfiguration ==
    (Executed /\ handler.fault = 0 /\ ConfiguredEntry.command # Null) =>
        /\ handler.attempts = <<Attempt(Write(ConfiguredEntry.command), TRUE),
                                Attempt(Press("enter"), TRUE)>>
        /\ handler.ret = Result(ConfiguredEntry.description, "")

\* The default entry of peace_sign, whose description the call replaces.
C27_DefaultDescriptionReplaced ==
    /\ Executed
    /\ handler.gesture = "peace_sign"
    /\ handler.config = DEFAULT_GESTURES
    /\ handler.fault = 0
    /\ handler.ret = Result("Start Dev Server", "")

(***************************************************************************)
(* C28  An execution failure inside a dispatched action (a keystroke call  *)
(* that raises) is caught: execute_gesture_action returns the description  *)
(* it returns on success followed by " (FAILED)", the action is not        *)
(* retried (no keystroke call is attempted twice, and none after the one   *)
(* that failed), and when typing the command text fails no enter key is    *)
(* sent.                                                                   *)
(***************************************************************************)
ActionFailed == Executed /\ handler.fault # 0

C28_FailureReportedNotRetried ==
    ActionFailed =>
        /\ handler.ret =
               Result(execute_gesture_action(handler.gesture, 0).ret.text,
                      " (FAILED)")
        /\ Len(handler.attempts) = handler.fault
        /\ \A i \in 1..Len(handler.attempts) :
               /\ handler.attempts[i].ok <=> i # handler.fault
               /\ handler.attempts[i].call = "write" /\ ~handler.attempts[i].ok
                     => \A j \in (i + 1)..Len(handler.attempts) :
                            handler.attempts[j].arg # "enter"

\* Typing the command text failed.
C28_Witness ==
    /\ ActionFailed
    /\ handler.gesture = "peace_sign"
    /\ handler.attempts = <<Attempt(Write("start the dev server"), FALSE)>>
    /\ handler.ret = Result("Start Dev Server", FAILED)

(***************************************************************************)
(* C29  Push-to-talk by edge detection: a frame starts recording only      *)
(* when the detector was consulted and its current gesture is the voice    *)
(* template (the previous frame's was not), and every started recording    *)
(* is stopped on the first later frame whose current gesture is no longer  *)
(* the voice template, frames skipped in between (terminal not focused,    *)
(* command hand missing) notwithstanding: after a frame that evaluated     *)
(* the command hand and found another current gesture, nothing is being    *)
(* recorded.                                                               *)
(***************************************************************************)
EvaluatedFrame == FrameDone /\ frame.updated

C29_PushToTalkEdges ==
    /\ (FrameDone /\ frame.started) =>
           /\ frame.updated
           /\ is_voice_gesture(current_gesture)
           /\ recording
    /\ (EvaluatedFrame /\ ~is_voice_gesture(current_gesture)) => ~recording

\* Recording goes on after a frame whose current gesture is peace_sign.
C29_RecordingOutlivesVoiceGesture ==
    /\ EvaluatedFrame
    /\ current_gesture = "peace_sign"
    /\ previous_gesture = "peace_sign"
    /\ recording

\* The same statement for the streaming loop alone, where it holds.
C29_StreamingLoopEdges == loop = "ws" => C29_PushToTalkEdges

(***************************************************************************)
(* C30  The per-frame pipeline never blocks waiting on transcription:      *)
(* draining the transcription queue returns at once and leaves the queue   *)
(* empty, and the start and stop recording operations called from the      *)
(* frame loop return without waiting for the recorder thread (join) or     *)
(* for a transcription of the remaining audio: the frame thread is never   *)
(* inside either wait.                                                     *)
(***************************************************************************)
C30_FrameThreadNeverWaitsOnTranscription ==
    /\ audio.caller \notin {"joining", "transcribing"}
    /\ op = "process_transcription_queue" => audio.text_queue = 0

\* The frame thread transcribing the remaining audio inside stop_recording.
C30_TranscribingOnFrameThread ==
    /\ audio.caller = "transcribing"
    /\ ~audio.recording
    /\ audio.audio_buffer >= MIN_REMAINING_UNITS

(***************************************************************************)
(* C31  For each of the ten templates, when the template's base gate (the  *)
(* hard conditions documented as its base score: all five fingers          *)
(* extended for open_palm, index and middle up with ring and pinky curled  *)
(* and a V for peace_sign, ...) is not met, its confidence is exactly 0    *)
(* and no bonus is applied.                                                *)
(***************************************************************************)
Scored == recognizer.call \in {"detect", "recognize_with_confidence"}

\* The documented base condition of template t on the scored pose.
BaseGateMet(t) ==
    IF t = "open_palm" THEN detect_open_palm(recognizer.landmarks)
    ELSE IF t = "peace_sign" THEN PeaceBase(recognizer.landmarks)
    ELSE IF t = "rock_sign" THEN RockBase(recognizer.landmarks)
    ELSE recognizer.reading.template = t

C31_NoScoreWithoutBaseGate ==
    Scored => \A t \in Templates :
                  ~BaseGateMet(t) => recognizer.scores[t] = 0

\* Four of the five open palm fingers extended, and a score with bonuses.
C31_OpenPalmScoredOnFourFingers ==
    /\ Scored
    /\ ~detect_open_palm(recognizer.landmarks)
    /\ recognizer.scores["open_palm"] > 30

(***************************************************************************)
(* C32  recognize_with_confidence returns the template with the maximum    *)
(* of the ten per-template confidences together with that confidence, or   *)
(* ('none', 0) when that maximum is below 0.40; the returned confidence    *)
(* is therefore 0 or within [0.40, 1.0], and no template confidence        *)
(* exceeds 1.0.                                                            *)
(***************************************************************************)
MaxScore == MaxOf({recognizer.scores[t] : t \in Templates})

C32_RecognizeReturnsMaximumOrNone ==
    recognizer.call = "recognize_with_confidence" =>
        /\ \A t \in Templates : recognizer.scores[t] <= 100
        /\ MaxScore < MIN_RECOGNIZE_CONFIDENCE
               => recognizer.ret = <<"none", 0>>
        /\ MaxScore >= MIN_RECOGNIZE_CONFIDENCE =>
               /\ recognizer.ret[1] \in Templates
               /\ recognizer.ret[2] = MaxScore
               /\ recognizer.scores[recognizer.ret[1]] = MaxScore
        /\ \/ recognizer.ret[2] = 0
           \/ /\ recognizer.ret[2] >= MIN_RECOGNIZE_CONFIDENCE
              /\ recognizer.ret[2] <= 100

\* A pose whose best template scores above 0 but below the floor.
C32_Witness ==
    /\ recognizer.call = "recognize_with_confidence"
    /\ MaxScore > 0
    /\ MaxScore < MIN_RECOGNIZE_CONFIDENCE
    /\ recognizer.ret = <<"none", 0>>

\* A pose on which two templates score, and the higher one is returned.
C32_WitnessWinner ==
    /\ recognizer.call = "recognize_with_confidence"
    /\ recognizer.scores["open_palm"] > 0
    /\ recognizer.ret[1] \in OtherTemplates
    /\ recognizer.ret[2] > recognizer.scores["open_palm"]

C35_WitnessCurled ==
    /\ recognizer.call = "is_finger_extended"
    /\ ~recognizer.first
    /\ ~recognizer.second

(***************************************************************************)
(* C40  The boolean and the confidence detection modes agree on every      *)
(* template: the confidence function returns a value greater than 0        *)
(* exactly when the boolean detector detect_<template> returns true on     *)
(* the same pose.                                                          *)
(***************************************************************************)
C40_DetectorsAgreeWithConfidence ==
    recognizer.call = "detect" =>
        \A t \in {"open_palm", "peace_sign", "rock_sign"} :
            recognizer.scores[t] > 0 <=> t \in recognizer.detected

\* peace_sign scored although detect_peace_sign is false (thumb not tucked).
C40_PeaceScoredNotDetected ==
    /\ recognizer.call = "detect"
    /\ recognizer.scores["peace_sign"] >= 50
    /\ "peace_sign" \notin recognizer.detected

\* rock_sign scored although detect_rock_sign is false.
C40_RockScoredNotDetected ==
    /\ recognizer.call = "detect"
    /\ recognizer.scores["rock_sign"] >= 50
    /\ "rock_sign" \notin recognizer.detected

\* The converse direction, which holds: a detected template scores.
C40_DetectedImpliesScored ==
    recognizer.call = "detect" =>
        \A t \in recognizer.detected : recognizer.scores[t] >= 50

(***************************************************************************)
(* C33  After every update call with a command hand present, the exposed   *)
(* current gesture is that frame's best guess: the frame's winning         *)
(* template if its adjusted confidence is at least 0.40 and 'none'         *)
(* otherwise, also on frames where a stable candidate was suppressed by    *)
(* the cooldown or the same-gesture check.                                 *)
(***************************************************************************)
FrameBestGuess ==
    IF seen.confidence >= DEFAULT_LOW_CONFIDENCE THEN seen.gesture ELSE "none"

C33_CurrentGestureIsFrameBestGuess ==
    (op = "update" /\ seen.present) => current_gesture = FrameBestGuess

\* A frame won by open_palm after which peace_sign, triggered earlier and
\* still the stable candidate, is reported as the current gesture.
C33_StaleCurrentGesture ==
    /\ op = "update"
    /\ seen.present
    /\ seen.gesture = "open_palm"
    /\ seen.confidence >= DEFAULT_LOW_CONFIDENCE
    /\ ret = NoTrigger
    /\ current_gesture = "peace_sign"

\* The frames on which no stable candidate reached _try_trigger do report
\* the frame's best guess.
C33_BestGuessWithoutCandidate ==
    (op = "update" /\ seen.present /\ ret = NoTrigger
        /\ Band(_get_stable_gesture(gesture_histories)) \in {"nothing", "low"})
    => current_gesture = FrameBestGuess

(***************************************************************************)
(* C37  The verifier is consulted only for a candidate that could          *)
(* actually trigger: update never calls the verifier on a frame where the  *)
(* cooldown has not elapsed or where the stable candidate equals           *)
(* last_triggered_gesture.                                                 *)
(***************************************************************************)
VerifierWasAsked == op = "update" /\ verifier.asked # Null

C37_VerifierAskedOnlyForTriggerableCandidate ==
    VerifierWasAsked =>
        /\ ~OnCooldown(call.issued_at, before.last_trigger_time)
        /\ ~SameAsLast(verifier.asked, before.last_triggered_gesture)

\* The verifier confirmed a candidate that had just been triggered, and
\* nothing was triggered.
C37_ConfirmedCandidateSuppressed ==
    /\ VerifierWasAsked
    /\ verifier.answer = "yes"
    /\ verifier.asked = before.last_triggered_gesture
    /\ ret = NoTrigger

\* With the cooldown over and another gesture triggered last, the call is
\* followed by a trigger when the verifier confirms.
C37_ConfirmedCandidateTriggers ==
    (/\ VerifierWasAsked
     /\ verifier.answer = "yes"
     /\ ~OnCooldown(clock, before.last_trigger_time)
     /\ ~SameAsLast(verifier.asked, before.last_triggered_gesture))
    => ret.gesture = verifier.asked

(***************************************************************************)
(* C39  Dictation never stays active without the clutch: at the end of     *)
(* every frame in which the clutch is not engaged, recording is not        *)
(* active, whatever gesture started it.                                    *)
(***************************************************************************)
C39_NoRecordingWithoutClutch ==
    (FrameDone /\ ~frame.engaged) => ~recording

\* A frame on which the clutch was released during a recording, which the
\* frame stopped.
C39_Witness ==
    /\ FrameDone
    /\ ~frame.engaged
    /\ was_engaged
    /\ frame.stopped
    /\ ~recording

\* The same in the streaming loop.
C39_WitnessStreaming == C39_Witness /\ loop = "ws"

(***************************************************************************)
(* C36  Detector instances are isolated: constructing a detector with      *)
(* per-gesture overrides (a different stability_frames or                  *)
(* skip_gemini_above for peace_sign, say) does not change the              *)
(* configuration, and hence the trigger behaviour, of any other detector   *)
(* constructed with no overrides, before or after: such a detector has     *)
(* the default configuration, and held peace_sign triggers on its third    *)
(* frame.                                                                  *)
(***************************************************************************)
\* What detector d reads as its configuration of gesture g.
ConfigOf(d, g) == instances.heap[instances.detectors[d].gesture_config[g]]

PlainDetectors ==
    {d \in 1..Len(instances.detectors) : ~instances.detectors[d].overridden}

C36_DetectorInstancesIsolated ==
    \A d \in PlainDetectors :
        /\ \A g \in Configured :
               /\ ConfigOf(d, g) = gesture_config[g]
               /\ instances.detectors[d].maxlen[g]
                      = gesture_config[g].stability_frames
        /\ instances.detectors[d].first_trigger
               \in {0, DEFAULT_STABILITY_FRAMES}
        /\ instances.detectors[d].frames >= DEFAULT_STABILITY_FRAMES
               => instances.detectors[d].first_trigger # 0

\* A detector built with no overrides before another was built with
\* stability_frames = 1 for peace_sign, which triggers on its first frame.
C36_EarlierDetectorChanged ==
    /\ Len(instances.detectors) >= 2
    /\ ~instances.detectors[1].overridden
    /\ instances.detectors[2].overridden
    /\ instances.detectors[1].maxlen["peace_sign"] = DEFAULT_STABILITY_FRAMES
    /\ instances.detectors[1].first_trigger = 1

\* A detector built with no overrides after one built with overrides, which
\* starts from the overridden values.
C36_LaterDetectorChanged ==
    /\ Len(instances.detectors) >= 2
    /\ instances.detectors[1].overridden
    /\ ~instances.detectors[2].overridden
    /\ instances.detectors[2].maxlen["peace_sign"] = 1

\* As long as no override has named a configured gesture, the detectors have
\* the default configuration.
C36_DefaultsWithoutOverrides ==
    instances.heap = gesture_config => C36_DetectorInstancesIsolated

(***************************************************************************)
(* C38  At most one audio recording thread is alive at any time, for any   *)
(* interleaving of start_recording and stop_recording with the recorder    *)
(* thread: start_recording while already recording starts no second        *)
(* thread, and a start_recording issued after a stop_recording never runs  *)
(* concurrently with the recorder thread of the previous session.          *)
(***************************************************************************)
C38_AtMostOneRecorderThread == ~(ThreadAlive /\ OldThreadAlive)

\* A new session's thread running while the previous session's thread is
\* still inside model.transcribe.
C38_TwoRecorderThreads ==
    /\ audio.recording
    /\ audio.record_thread = "running"
    /\ audio.old_thread = "transcribing"

\* The previous session's thread back in its loop, with should_stop cleared
\* by the new session.
C38_OldThreadKeepsRecording ==
    /\ audio.recording
    /\ ~audio.should_stop
    /\ audio.record_thread = "running"
    /\ audio.old_thread = "running"

\* start_recording while already recording changes nothing.
C38_StartWhileRecordingStartsNothing ==
    [][(op' = "start_recording" /\ audio.recording) => audio' = audio]_vars

(***************************************************************************)
(* C34  Starting from the default gesture mapping, after any sequence of   *)
(* set_gesture_command and reset_to_defaults calls (and the string-format  *)
(* migration done on load), every gesture entry names exactly one of a     *)
(* literal command or a special action, never both and never neither.      *)
(***************************************************************************)
NamesExactlyOne(entry) == (entry.command # Null) # (entry.action # Null)

C34_ExactlyOneOfCommandOrAction ==
    \A g \in DOMAIN handler.config : NamesExactlyOne(handler.config[g])

\* A gesture whose default is a special action, given a command.
C34_Witness ==
    /\ op = "set_gesture_command"
    /\ DEFAULT_GESTURES["thumbs_down"].action # Null
    /\ handler.config["thumbs_down"].command # Null
    /\ handler.config["thumbs_down"].action = Null

\* An old-format file that named a special action for a command gesture.
C34_WitnessMigrated ==
    /\ op = "load_config"
    /\ handler.config["peace_sign"] = SpecialAction("clear_input", "Start Server")
    /\ handler.config["thumbs_down"] = Command("run tests", "Clear Input")

\* An entry created by set_gesture_command for a gesture with no default.
C34_WitnessNewGesture ==
    /\ op = "set_gesture_command"
    /\ "wave" \in DOMAIN handler.config
    /\ handler.config["wave"].description = Null

====
